---- MODULE Spec2Model ----
(***************************************************************************)
(* A model of packetry's capture database (src/capture.rs): the streaming  *)
(* decoder that groups USB packets into transactions and transactions into *)
(* transfers, the indices it builds, and the item API that reads them.     *)
(*                                                                         *)
(* Conventions.  Indices and ids are 0-based as in the source; Get(s, i)   *)
(* reads position i of a sequence.  A PID is its byte value.  Each method  *)
(* of Capture is an operator from a capture record to a capture record;    *)
(* the record's field `panicked` is set where the source panics (an index  *)
(* out of bounds, an unwrap of None, panic!) and every later step of the   *)
(* call is then skipped, as unwinding does.                                *)
(***************************************************************************)
EXTENDS Integers, Sequences, FiniteSets, TLC

\* ------------------------------------------------------------------ bounds

\* Packets ingested under Spec (any packet at any time).
MaxPackets == 3
\* Bus transactions begun under SpecBus (well-formed traffic).
MaxTransactions == 4
\* Largest child index a get_item call is made with.
MaxIndex == 1

\* --------------------------------------------------------------------- PID

PID_RSVD == 240
PID_OUT == 225
PID_ACK == 210
PID_DATA0 == 195
PID_PING == 180
PID_SOF == 165
PID_NYET == 150
PID_DATA2 == 135
PID_SPLIT == 120
PID_IN == 105
PID_NAK == 90
PID_DATA1 == 75
PID_ERR == 60
PID_SETUP == 45
PID_STALL == 30
PID_MDATA == 15
PID_Malformed == 0

NamedPIDs ==
    {PID_RSVD, PID_OUT, PID_ACK, PID_DATA0, PID_PING, PID_SOF, PID_NYET,
     PID_DATA2, PID_SPLIT, PID_IN, PID_NAK, PID_DATA1, PID_ERR, PID_SETUP,
     PID_STALL, PID_MDATA, PID_Malformed}

\* PID::from(u8): a named value is itself, any other byte is the default.
PID_from(byte) == IF byte \in NamedPIDs THEN byte ELSE PID_Malformed

\* ------------------------------------------------------------- sequences

Get(s, i) == s[i + 1]
InRange(s, i) == i >= 0 /\ i < Len(s)
Push(s, x) == Append(s, x)

RECURSIVE Sum(_)
Sum(s) == IF s = <<>> THEN 0 ELSE Head(s) + Sum(Tail(s))

\* ------------------------------------------------------------ bit fields

\* u16::from_be_bytes in the place of from_le_bytes
U16_from_be_bytes(lo, hi) == 256 * lo + hi

\* u16::from_le_bytes
U16_from_le_bytes(lo, hi) == lo + 256 * hi

\* SOFFields: frame_number bits 10..0, crc bits 15..11.
frame_number(w) == w % 2048
SOF_crc(w) == w \div 2048

\* TokenFields: device_address bits 6..0, endpoint_number bits 10..7,
\* crc bits 15..11.
device_address(w) == w % 128
\* An endpoint_number read from bits 11..8
endpoint_number_from_bit8(w) == (w \div 256) % 16

endpoint_number(w) == (w \div 128) % 16
Token_crc(w) == w \div 2048

\* RequestTypeFields: recipient bits 4..0, type bits 6..5, direction bit 7.
RequestType_recipient(b) == b % 32
RequestType_type(b) == (b \div 32) % 4
RequestType_direction(b) == (b \div 128) % 2

Panic == [kind |-> "panic"]

\* PacketFields::from_packet.  The bytes are read with packet[i]; an index
\* past the end panics.  For DATA0/DATA1 `end - 2` underflows on a packet of
\* one byte: a build with overflow checks panics there, one without them
\* indexes at 2^64 - 1 and panics there, so both panic.
from_packet(packet) ==
    LET end == Len(packet)
        pid == PID_from(Get(packet, 0))
    IN  IF pid = PID_SOF THEN
            IF end < 3 THEN Panic
            ELSE [kind |-> "SOF",
                  fields |-> U16_from_le_bytes(Get(packet, 1), Get(packet, 2))]
        ELSE IF pid \in {PID_SETUP, PID_IN, PID_OUT} THEN
            IF end < 3 THEN Panic
            ELSE [kind |-> "Token",
                  fields |-> U16_from_le_bytes(Get(packet, 1), Get(packet, 2))]
        ELSE IF pid \in {PID_DATA0, PID_DATA1} THEN
            IF end < 2 THEN Panic
            ELSE [kind |-> "Data",
                  crc |-> U16_from_le_bytes(Get(packet, end - 2),
                                            Get(packet, end - 1))]
        ELSE [kind |-> "None"]

\* ------------------------------------------------------- decoder statuses

\* EndpointType: Control = 0, Normal (the default), Framing, Invalid.
EndpointType_Framing == 254
EndpointType_Invalid == 255

\* EndpointType::from(u8)
EndpointType_from(num) ==
    IF num = 0 THEN "Control"
    ELSE IF num = EndpointType_Framing THEN "Framing"
    ELSE IF num = EndpointType_Invalid THEN "Invalid"
    ELSE "Normal"

\* EndpointState
Idle == 0
Starting == 1
Ongoing == 2
Ending == 3

\* A status without the arm that continues a Framing transfer.
EndpointData_status_framing_once(ep, next) ==
    LET t == ep.ep_type
        last == ep.last
    IN  IF t = "Control" /\ next = PID_SETUP THEN "NEW"
        ELSE IF t = "Control" /\ last = PID_SETUP /\ next \in {PID_IN, PID_OUT} THEN "CONTINUE"
        ELSE IF t = "Control" /\ last = PID_IN /\ next = PID_IN THEN "CONTINUE"
        ELSE IF t = "Control" /\ last = PID_OUT /\ next = PID_OUT THEN "CONTINUE"
        ELSE IF t = "Control" /\ last = PID_IN /\ next = PID_OUT THEN "DONE"
        ELSE IF t = "Control" /\ last = PID_OUT /\ next = PID_IN THEN "DONE"
        ELSE IF t = "Normal" /\ last = PID_Malformed /\ next \in {PID_IN, PID_OUT} THEN "NEW"
        ELSE IF t = "Normal" /\ last = PID_IN /\ next = PID_IN THEN "CONTINUE"
        ELSE IF t = "Normal" /\ last = PID_OUT /\ next = PID_OUT THEN "CONTINUE"
        ELSE IF t = "Framing" /\ last = PID_Malformed /\ next = PID_SOF THEN "NEW"
        ELSE "INVALID"

\* A status that lets a SETUP start a control transfer only on an endpoint
\* whose last PID is Malformed.
EndpointData_status_setup_first(ep, next) ==
    LET t == ep.ep_type
        last == ep.last
    IN  IF t = "Control" /\ last = PID_Malformed /\ next = PID_SETUP THEN "NEW"
        ELSE IF t = "Control" /\ last = PID_SETUP /\ next \in {PID_IN, PID_OUT} THEN "CONTINUE"
        ELSE IF t = "Control" /\ last = PID_IN /\ next = PID_IN THEN "CONTINUE"
        ELSE IF t = "Control" /\ last = PID_OUT /\ next = PID_OUT THEN "CONTINUE"
        ELSE IF t = "Control" /\ last = PID_IN /\ next = PID_OUT THEN "DONE"
        ELSE IF t = "Control" /\ last = PID_OUT /\ next = PID_IN THEN "DONE"
        ELSE IF t = "Normal" /\ last = PID_Malformed /\ next \in {PID_IN, PID_OUT} THEN "NEW"
        ELSE IF t = "Normal" /\ last = PID_IN /\ next = PID_IN THEN "CONTINUE"
        ELSE IF t = "Normal" /\ last = PID_OUT /\ next = PID_OUT THEN "CONTINUE"
        ELSE IF t = "Framing" /\ last = PID_Malformed /\ next = PID_SOF THEN "NEW"
        ELSE IF t = "Framing" /\ last = PID_SOF /\ next = PID_SOF THEN "CONTINUE"
        ELSE "INVALID"

\* EndpointData::status: the arms in source order, first match wins.
EndpointData_status(ep, next) ==
    LET t == ep.ep_type
        last == ep.last
    IN  IF t = "Control" /\ next = PID_SETUP THEN "NEW"
        ELSE IF t = "Control" /\ last = PID_SETUP /\ next \in {PID_IN, PID_OUT} THEN "CONTINUE"
        ELSE IF t = "Control" /\ last = PID_IN /\ next = PID_IN THEN "CONTINUE"
        ELSE IF t = "Control" /\ last = PID_OUT /\ next = PID_OUT THEN "CONTINUE"
        ELSE IF t = "Control" /\ last = PID_IN /\ next = PID_OUT THEN "DONE"
        ELSE IF t = "Control" /\ last = PID_OUT /\ next = PID_IN THEN "DONE"
        ELSE IF t = "Normal" /\ last = PID_Malformed /\ next \in {PID_IN, PID_OUT} THEN "NEW"
        ELSE IF t = "Normal" /\ last = PID_IN /\ next = PID_IN THEN "CONTINUE"
        ELSE IF t = "Normal" /\ last = PID_OUT /\ next = PID_OUT THEN "CONTINUE"
        ELSE IF t = "Framing" /\ last = PID_Malformed /\ next = PID_SOF THEN "NEW"
        ELSE IF t = "Framing" /\ last = PID_SOF /\ next = PID_SOF THEN "CONTINUE"
        ELSE "INVALID"

\* A TransactionState::status that starts a transaction with every SOF.
TransactionState_status_sof_new(state, next) ==
    LET first == state.first
        last == state.last
    IN  IF next \in {PID_SETUP, PID_IN, PID_OUT} THEN "NEW"
        ELSE IF last = PID_Malformed /\ next = PID_SOF THEN "NEW"
        ELSE IF last = PID_SOF /\ next = PID_SOF THEN "NEW"
        ELSE IF last = PID_SETUP /\ next = PID_DATA0 THEN "CONTINUE"
        ELSE IF first = PID_SETUP /\ last = PID_DATA0 /\ next = PID_ACK THEN "DONE"
        ELSE IF last = PID_IN /\ next \in {PID_NAK, PID_STALL} THEN "DONE"
        ELSE IF last \in {PID_IN, PID_OUT} /\ next \in {PID_DATA0, PID_DATA1} THEN "CONTINUE"
        ELSE IF first \in {PID_IN, PID_OUT} /\ last \in {PID_DATA0, PID_DATA1} /\ next = PID_ACK
            THEN "DONE"
        ELSE IF first = PID_OUT /\ last \in {PID_DATA0, PID_DATA1} /\ next \in {PID_NAK, PID_STALL}
            THEN "DONE"
        ELSE "INVALID"

\* A status for which the ACK of a SETUP or of an IN or OUT with data
\* continues the transaction.
TransactionState_status_ack_continues(state, next) ==
    LET first == state.first
        last == state.last
    IN  IF next \in {PID_SETUP, PID_IN, PID_OUT} THEN "NEW"
        ELSE IF last = PID_Malformed /\ next = PID_SOF THEN "NEW"
        ELSE IF last = PID_SOF /\ next = PID_SOF THEN "CONTINUE"
        ELSE IF last = PID_SETUP /\ next = PID_DATA0 THEN "CONTINUE"
        ELSE IF first = PID_SETUP /\ last = PID_DATA0 /\ next = PID_ACK THEN "CONTINUE"
        ELSE IF last = PID_IN /\ next \in {PID_NAK, PID_STALL} THEN "DONE"
        ELSE IF last \in {PID_IN, PID_OUT} /\ next \in {PID_DATA0, PID_DATA1} THEN "CONTINUE"
        ELSE IF first \in {PID_IN, PID_OUT} /\ last \in {PID_DATA0, PID_DATA1} /\ next = PID_ACK
            THEN "CONTINUE"
        ELSE IF first = PID_OUT /\ last \in {PID_DATA0, PID_DATA1} /\ next \in {PID_NAK, PID_STALL}
            THEN "DONE"
        ELSE "INVALID"

\* TransactionState::status: the arms in source order, first match wins.
TransactionState_status(state, next) ==
    LET first == state.first
        last == state.last
    IN  IF next \in {PID_SETUP, PID_IN, PID_OUT} THEN "NEW"
        ELSE IF last = PID_Malformed /\ next = PID_SOF THEN "NEW"
        ELSE IF last = PID_SOF /\ next = PID_SOF THEN "CONTINUE"
        ELSE IF last = PID_SETUP /\ next = PID_DATA0 THEN "CONTINUE"
        ELSE IF first = PID_SETUP /\ last = PID_DATA0 /\ next = PID_ACK THEN "DONE"
        ELSE IF last = PID_IN /\ next \in {PID_NAK, PID_STALL} THEN "DONE"
        ELSE IF last \in {PID_IN, PID_OUT} /\ next \in {PID_DATA0, PID_DATA1} THEN "CONTINUE"
        ELSE IF first \in {PID_IN, PID_OUT} /\ last \in {PID_DATA0, PID_DATA1} /\ next = PID_ACK
            THEN "DONE"
        ELSE IF first = PID_OUT /\ last \in {PID_DATA0, PID_DATA1} /\ next \in {PID_NAK, PID_STALL}
            THEN "DONE"
        ELSE "INVALID"

\* ------------------------------------------------------------ the capture

\* Sequencing of a method's statements: nothing runs after a panic.
Then(c, Op(_)) == IF c.panicked THEN c ELSE Op(c)

\* endpoint_index[addr][num]: -1 until the pair is given an id.  The model
\* keeps the entries that are not -1.
\* A lookup that finds no pair registered.
endpoint_index_get_unset(c, addr, num) == -1

endpoint_index_get(c, addr, num) ==
    IF <<addr, num>> \in DOMAIN c.endpoint_index
    THEN c.endpoint_index[<<addr, num>>] ELSE -1

endpoint_index_set(c, addr, num, id) ==
    [c EXCEPT !.endpoint_index =
        [k \in (DOMAIN c.endpoint_index) \cup {<<addr, num>>} |->
            IF k = <<addr, num>> THEN id ELSE c.endpoint_index[k]]]

\* Capture::add_endpoint.  `as u8` keeps the low byte.
add_endpoint(c, addr, num) ==
    LET ep_data == [ep_type |-> EndpointType_from(num % 256),
                    transaction_ids |-> <<>>,
                    transfer_index |-> <<>>,
                    transaction_start |-> 0,
                    transaction_count |-> 0,
                    last |-> PID_Malformed]
        endpoint == [device_address |-> addr % 256,
                     endpoint_number |-> num % 256]
    IN  [c EXCEPT !.endpoint_data = Push(@, ep_data),
                  !.endpoints = Push(@, endpoint),
                  !.last_endpoint_state = Push(@, Idle)]

\* TransactionState::default
TransactionState_default ==
    [first |-> PID_Malformed, last |-> PID_Malformed, start |-> 0, count |-> 0,
     endpoint_id |-> 0]

\* Capture::new.  The last five fields are history, not program state:
\* `attempts` records, per transaction id, the `success` argument of the
\* transfer_append that recorded it; `entry_transactions` records, per
\* transfer entry, the id of the transaction whose transfer_update appended
\* it, and `entry_endpoints` the number of endpoints allocated when it was
\* appended; `arrived` records the packet of each handle_raw_packet call, in
\* order; `events` records each transfer_update of the handle_raw_packet call
\* in progress (or just returned).
Capture_new ==
    LET capture == [item_index |-> <<>>,
                    packet_index |-> <<>>,
                    packet_data |-> <<>>,
                    transaction_index |-> <<>>,
                    transfer_index |-> <<>>,
                    endpoints |-> <<>>,
                    endpoint_data |-> <<>>,
                    endpoint_index |-> <<>>,
                    endpoint_states |-> <<>>,
                    endpoint_state_index |-> <<>>,
                    last_endpoint_state |-> <<>>,
                    last_item_endpoint |-> -1,
                    transaction_state |-> TransactionState_default,
                    panicked |-> FALSE,
                    attempts |-> <<>>,
                    entry_transactions |-> <<>>,
                    entry_endpoints |-> <<>>,
                    events |-> <<>>,
                    arrived |-> <<>>]
    IN  add_endpoint(add_endpoint(capture, 0, EndpointType_Invalid),
                     0, EndpointType_Framing)

\* A state machine in which only the endpoint of the entry is ever active.
EndpointState_next_others_idle(same, start, last) ==
    IF same /\ start THEN Starting
    ELSE IF same THEN Ending
    ELSE Idle

\* A state machine in which the other endpoints keep the state they had.
EndpointState_next_others_keep(same, start, last) ==
    IF same /\ start THEN Starting
    ELSE IF same THEN Ending
    ELSE last

\* Capture::add_endpoint_state: the match on (same, start, last)
EndpointState_next(same, start, last) ==
    IF same /\ start THEN Starting
    ELSE IF same THEN Ending
    ELSE IF last \in {Starting, Ongoing} THEN Ongoing
    ELSE Idle

\* An add_endpoint_state that reads the offset of the snapshot after
\* appending it.
add_endpoint_state_offset_after(c, endpoint_id, start) ==
    LET endpoint_count == Len(c.endpoints)
        last_state ==
            [i \in 1..Len(c.last_endpoint_state) |->
                IF i - 1 < endpoint_count
                THEN EndpointState_next(endpoint_id = i - 1, start,
                                        c.last_endpoint_state[i])
                ELSE c.last_endpoint_state[i]]
        state_offset == Len(c.endpoint_states) + Len(last_state)
    IN  IF endpoint_count > Len(c.last_endpoint_state)
        THEN [c EXCEPT !.panicked = TRUE]
        ELSE [c EXCEPT !.last_endpoint_state = last_state,
                       !.endpoint_states = @ \o last_state,
                       !.endpoint_state_index = Push(@, state_offset)]

\* Capture::add_endpoint_state
add_endpoint_state(c, endpoint_id, start) ==
    LET endpoint_count == Len(c.endpoints)
        last_state ==
            [i \in 1..Len(c.last_endpoint_state) |->
                IF i - 1 < endpoint_count
                THEN EndpointState_next(endpoint_id = i - 1, start,
                                        c.last_endpoint_state[i])
                ELSE c.last_endpoint_state[i]]
        state_offset == Len(c.endpoint_states)
    IN  IF endpoint_count > Len(c.last_endpoint_state)
        THEN [c EXCEPT !.panicked = TRUE]
        ELSE [c EXCEPT !.last_endpoint_state = last_state,
                       !.endpoint_states = @ \o last_state,
                       !.endpoint_state_index = Push(@, state_offset)]

\* TransferIndexEntry: transfer_id bits 51..0, endpoint_id bits 62..52,
\* is_start bit 63.  A setter keeps the low bits of its argument that fit the
\* field; no run of the model comes near 2^52 transfers on an endpoint.
TransferIndexEntry(endpoint_id, transfer_id, is_start) ==
    [endpoint_id |-> endpoint_id % 2048,
     transfer_id |-> transfer_id,
     is_start |-> is_start]

\* An add_transfer_entry that gives an end entry the id of its start entry.
add_transfer_entry_same_id(c, endpoint_id, start) ==
    LET ep_data == Get(c.endpoint_data, endpoint_id)
        n == Len(ep_data.transfer_index)
        entry == TransferIndexEntry(endpoint_id % 65536,
                                    IF start \/ n = 0 THEN n ELSE n - 1, start)
    IN  add_endpoint_state(
            [c EXCEPT !.transfer_index = Push(@, entry),
                      !.entry_transactions = Push(@, Len(c.transaction_index)),
                      !.entry_endpoints = Push(@, Len(c.endpoints))],
            endpoint_id, start)

\* Capture::add_transfer_entry
add_transfer_entry(c, endpoint_id, start) ==
    LET ep_data == Get(c.endpoint_data, endpoint_id)
        entry == TransferIndexEntry(endpoint_id % 65536,
                                    Len(ep_data.transfer_index), start)
    IN  add_endpoint_state(
            [c EXCEPT !.transfer_index = Push(@, entry),
                      !.entry_transactions = Push(@, Len(c.transaction_index)),
                      !.entry_endpoints = Push(@, Len(c.endpoints))],
            endpoint_id, start)

\* A transfer_start that records every transfer as beginning at the first
\* transaction of its endpoint.
transfer_start_offset_zero(c) ==
    LET endpoint_id == c.transaction_state.endpoint_id
        c1 == [c EXCEPT !.item_index = Push(@, Len(c.transfer_index)),
                        !.last_item_endpoint = endpoint_id]
        c2 == add_transfer_entry(c1, endpoint_id, TRUE)
    IN  Then(c2, LAMBDA x :
            [x EXCEPT !.endpoint_data[endpoint_id + 1] =
                [@ EXCEPT !.transaction_start = 0,
                          !.transaction_count = 0,
                          !.transfer_index = Push(@, 0)]])

\* A transfer_start that pushes the item after the entry it stands for.
transfer_start_item_after(c) ==
    LET endpoint_id == c.transaction_state.endpoint_id
        c1 == [c EXCEPT !.last_item_endpoint = endpoint_id]
        c2 == add_transfer_entry(c1, endpoint_id, TRUE)
        transaction_start == Len(Get(c2.endpoint_data, endpoint_id).transaction_ids)
    IN  Then(c2, LAMBDA x :
            [x EXCEPT !.item_index = Push(@, Len(x.transfer_index)),
                      !.endpoint_data[endpoint_id + 1] =
                [@ EXCEPT !.transaction_start = transaction_start,
                          !.transaction_count = 0,
                          !.transfer_index = Push(@, transaction_start)]])

\* Capture::transfer_start
transfer_start(c) ==
    LET endpoint_id == c.transaction_state.endpoint_id
        c1 == [c EXCEPT !.item_index = Push(@, Len(c.transfer_index)),
                        !.last_item_endpoint = endpoint_id]
        c2 == add_transfer_entry(c1, endpoint_id, TRUE)
        transaction_start == Len(Get(c2.endpoint_data, endpoint_id).transaction_ids)
    IN  Then(c2, LAMBDA x :
            [x EXCEPT !.endpoint_data[endpoint_id + 1] =
                [@ EXCEPT !.transaction_start = transaction_start,
                          !.transaction_count = 0,
                          !.transfer_index = Push(@, transaction_start)]])

\* Capture::transfer_append
\* A transfer_append that lists the transaction's first packet id where the
\* transaction's id belongs.
transfer_append_packet_id(c, success) ==
    LET endpoint_id == c.transaction_state.endpoint_id
    IN  [c EXCEPT !.endpoint_data[endpoint_id + 1] =
                [@ EXCEPT !.transaction_ids = Push(@, c.transaction_state.start),
                          !.transaction_count = @ + 1,
                          !.last = IF success THEN c.transaction_state.first
                                   ELSE @],
                  !.attempts = Push(@, success)]

\* A transfer_append that records the first PID of failed attempts too.
transfer_append_always_last(c, success) ==
    LET endpoint_id == c.transaction_state.endpoint_id
    IN  [c EXCEPT !.endpoint_data[endpoint_id + 1] =
                [@ EXCEPT !.transaction_ids = Push(@, Len(c.transaction_index)),
                          !.transaction_count = @ + 1,
                          !.last = c.transaction_state.first],
                  !.attempts = Push(@, success)]

\* A transfer_append that lists only successful transactions.
transfer_append_successful_only(c, success) ==
    LET endpoint_id == c.transaction_state.endpoint_id
    IN  [c EXCEPT !.endpoint_data[endpoint_id + 1] =
                [@ EXCEPT !.transaction_ids =
                              IF success THEN Push(@, Len(c.transaction_index))
                              ELSE @,
                          !.transaction_count = @ + 1,
                          !.last = IF success THEN c.transaction_state.first
                                   ELSE @],
                  !.attempts = Push(@, success)]

\* A transfer_append that leaves ep.last as it is, success or not.
transfer_append_keeps_last(c, success) ==
    LET endpoint_id == c.transaction_state.endpoint_id
    IN  [c EXCEPT !.endpoint_data[endpoint_id + 1] =
                [@ EXCEPT !.transaction_ids = Push(@, Len(c.transaction_index)),
                          !.transaction_count = @ + 1],
                  !.attempts = Push(@, success)]

\* Capture::transfer_append
transfer_append(c, success) ==
    LET endpoint_id == c.transaction_state.endpoint_id
    IN  [c EXCEPT !.endpoint_data[endpoint_id + 1] =
                [@ EXCEPT !.transaction_ids = Push(@, Len(c.transaction_index)),
                          !.transaction_count = @ + 1,
                          !.last = IF success THEN c.transaction_state.first
                                   ELSE @],
                  !.attempts = Push(@, success)]

\* A transfer_end that gives no end entry an item of its own.
transfer_end_never_item(c) ==
    LET endpoint_id == c.transaction_state.endpoint_id
        ep_data == Get(c.endpoint_data, endpoint_id)
        c1 == IF ep_data.transaction_count > 0
              THEN add_transfer_entry(c, endpoint_id, FALSE)
              ELSE c
    IN  Then(c1, LAMBDA x :
            [x EXCEPT !.endpoint_data[endpoint_id + 1] =
                [@ EXCEPT !.transaction_count = 0,
                          !.last = PID_Malformed]])

\* A transfer_end that gives every end entry an item of its own.
transfer_end_always_item(c) ==
    LET endpoint_id == c.transaction_state.endpoint_id
        ep_data == Get(c.endpoint_data, endpoint_id)
        c1 == IF ep_data.transaction_count > 0
              THEN add_transfer_entry(
                       [c EXCEPT !.item_index = Push(@, Len(c.transfer_index)),
                                 !.last_item_endpoint = endpoint_id],
                       endpoint_id, FALSE)
              ELSE c
    IN  Then(c1, LAMBDA x :
            [x EXCEPT !.endpoint_data[endpoint_id + 1] =
                [@ EXCEPT !.transaction_count = 0,
                          !.last = PID_Malformed]])

\* A transfer_end that appends an end entry whether or not a transfer is
\* open.
transfer_end_unguarded(c) ==
    LET endpoint_id == c.transaction_state.endpoint_id
        c1 == add_transfer_entry(
                  IF c.last_item_endpoint # endpoint_id
                  THEN [c EXCEPT !.item_index = Push(@, Len(c.transfer_index)),
                                 !.last_item_endpoint = endpoint_id]
                  ELSE c,
                  endpoint_id, FALSE)
    IN  Then(c1, LAMBDA x :
            [x EXCEPT !.endpoint_data[endpoint_id + 1] =
                [@ EXCEPT !.transaction_count = 0,
                          !.last = PID_Malformed]])

\* Capture::transfer_end
transfer_end(c) ==
    LET endpoint_id == c.transaction_state.endpoint_id
        ep_data == Get(c.endpoint_data, endpoint_id)
        c1 == IF ep_data.transaction_count > 0
              THEN add_transfer_entry(
                       IF c.last_item_endpoint # endpoint_id
                       THEN [c EXCEPT !.item_index = Push(@, Len(c.transfer_index)),
                                      !.last_item_endpoint = endpoint_id]
                       ELSE c,
                       endpoint_id, FALSE)
              ELSE c
    IN  Then(c1, LAMBDA x :
            [x EXCEPT !.endpoint_data[endpoint_id + 1] =
                [@ EXCEPT !.transaction_count = 0,
                          !.last = PID_Malformed]])

\* What a transfer_update may touch, as seen before and after it (history).
TransferView(c, endpoint_id) ==
    LET ep_data == Get(c.endpoint_data, endpoint_id)
    IN  [item_index |-> c.item_index,
         transfer_index |-> c.transfer_index,
         endpoint_states |-> c.endpoint_states,
         endpoint_state_index |-> c.endpoint_state_index,
         last_endpoint_state |-> c.last_endpoint_state,
         last_item_endpoint |-> c.last_item_endpoint,
         transaction_ids |-> ep_data.transaction_ids,
         ep_transfer_index |-> ep_data.transfer_index,
         transaction_count |-> ep_data.transaction_count,
         last |-> ep_data.last]

\* The `completed` and `retry_needed` of Capture::transfer_update.
completed(c) ==
    c.transaction_state.count = 3 /\ c.transaction_state.last = PID_ACK

\* A retry guard that does not look at the status.
retry_needed_any_status(c, status) ==
    /\ Get(c.endpoint_data, c.transaction_state.endpoint_id).transaction_count > 0
    /\ ~completed(c)

retry_needed(c, status) ==
    /\ Get(c.endpoint_data, c.transaction_state.endpoint_id).transaction_count > 0
    /\ status # "INVALID"
    /\ ~completed(c)

\* Capture::transfer_update
transfer_update(c) ==
    LET endpoint_id == c.transaction_state.endpoint_id
        ep_data == Get(c.endpoint_data, endpoint_id)
        status == EndpointData_status(ep_data, c.transaction_state.first)
        retry == retry_needed(c, status)
        after ==
            IF retry THEN transfer_append(c, FALSE)
            ELSE IF status = "NEW" THEN
                Then(Then(transfer_end(c), transfer_start),
                     LAMBDA x : transfer_append(x, TRUE))
            ELSE IF status = "CONTINUE" THEN transfer_append(c, TRUE)
            ELSE IF status = "DONE" THEN
                Then(transfer_append(c, TRUE), transfer_end)
            ELSE
                Then(Then(Then(transfer_end(c), transfer_start),
                          LAMBDA x : transfer_append(x, FALSE)),
                     transfer_end)
        event == [endpoint_id |-> endpoint_id,
                  transaction_id |-> Len(c.transaction_index),
                  first |-> c.transaction_state.first,
                  count |-> c.transaction_state.count,
                  last |-> c.transaction_state.last,
                  status |-> status,
                  completed |-> completed(c),
                  retry_needed |-> retry,
                  before |-> TransferView(c, endpoint_id),
                  after |-> TransferView(after, endpoint_id)]
    IN  IF ~InRange(c.endpoint_data, endpoint_id)
        THEN [c EXCEPT !.panicked = TRUE]
        ELSE [after EXCEPT !.events = Push(@, event)]

\* An add_transaction that pushes the transaction's packet count where its
\* first packet id belongs.
add_transaction_count(c) ==
    IF c.transaction_state.count = 0 THEN c
    ELSE Then(transfer_update(c), LAMBDA x :
            [x EXCEPT !.transaction_index = Push(@, x.transaction_state.count)])

\* Capture::add_transaction
add_transaction(c) ==
    IF c.transaction_state.count = 0 THEN c
    ELSE Then(transfer_update(c), LAMBDA x :
            [x EXCEPT !.transaction_index = Push(@, x.transaction_state.start)])

\* Capture::transaction_end
transaction_end(c) ==
    Then(add_transaction(c), LAMBDA x :
        [x EXCEPT !.transaction_state.count = 0,
                  !.transaction_state.first = PID_Malformed,
                  !.transaction_state.last = PID_Malformed])

\* Capture::transaction_append
transaction_append(c, pid) ==
    [c EXCEPT !.transaction_state.count = @ + 1,
              !.transaction_state.last = pid]

\* Capture::transaction_start
transaction_start(c, packet) ==
    LET first == PID_from(Get(packet, 0))
        c1 == [c EXCEPT !.transaction_state.start = Len(c.packet_index),
                        !.transaction_state.count = 1,
                        !.transaction_state.first = first,
                        !.transaction_state.last = first]
        fields == from_packet(packet)
    IN  IF fields.kind = "panic" THEN [c1 EXCEPT !.panicked = TRUE]
        ELSE IF fields.kind = "SOF" THEN
            [c1 EXCEPT !.transaction_state.endpoint_id = 1]
        ELSE IF fields.kind = "Token" THEN
            LET addr == device_address(fields.fields)
                num == endpoint_number(fields.fields)
                c2 == IF endpoint_index_get(c1, addr, num) < 0
                      THEN add_endpoint(
                               endpoint_index_set(c1, addr, num, Len(c1.endpoints)),
                               addr, num)
                      ELSE c1
            IN  [c2 EXCEPT !.transaction_state.endpoint_id =
                               endpoint_index_get(c2, addr, num)]
        ELSE [c1 EXCEPT !.transaction_state.endpoint_id = 0]

\* Capture::transaction_update
transaction_update(c, packet) ==
    IF Len(packet) = 0 THEN [c EXCEPT !.panicked = TRUE]
    ELSE
        LET pid == PID_from(Get(packet, 0))
            status == TransactionState_status(c.transaction_state, pid)
        IN  IF status = "NEW" THEN
                Then(transaction_end(c), LAMBDA x : transaction_start(x, packet))
            ELSE IF status = "CONTINUE" THEN transaction_append(c, pid)
            ELSE IF status = "DONE" THEN
                Then(transaction_append(c, pid), transaction_end)
            ELSE
                Then(Then(transaction_end(c),
                          LAMBDA x : transaction_start(x, packet)),
                     transaction_end)

\* handle_raw_packet recording the end of the packet instead of its start
handle_raw_packet_index_after(c, packet) ==
    Then(transaction_update([c EXCEPT !.events = <<>>,
                                      !.arrived = Push(@, packet)], packet),
         LAMBDA x :
            [x EXCEPT !.packet_index = Push(@, Len(x.packet_data) + Len(packet)),
                      !.packet_data = @ \o packet])

\* Capture::handle_raw_packet
handle_raw_packet(c, packet) ==
    Then(transaction_update([c EXCEPT !.events = <<>>,
                                      !.arrived = Push(@, packet)], packet),
         LAMBDA x :
            [x EXCEPT !.packet_index = Push(@, Len(x.packet_data)),
                      !.packet_data = @ \o packet])

\* ------------------------------------------------------------ the item API

\* Item and Option<Item>
Transfer(u) == [kind |-> "Transfer", u |-> u]
Transaction(u, v) == [kind |-> "Transaction", u |-> u, v |-> v]
Packet(u, v, w) == [kind |-> "Packet", u |-> u, v |-> v, w |-> w]
None == [kind |-> "None"]

IsPanic(x) == x.kind = "panic"

\* a - b on u64/usize.  Where b > a, a build with overflow checks panics
\* and one without wraps to 2^64 - (b - a), which the model writes a - b (a
\* negative number stands for its residue modulo 2^64).
Sub(a, b, checks) ==
    IF a < b /\ checks THEN Panic ELSE [kind |-> "int", value |-> a - b]

\* get_index_range: HybridIndex::get and get_range fail past the end, and
\* the unwrap then panics.
get_index_range(index, length, id) ==
    IF id + 2 > Len(index) THEN
        IF ~InRange(index, id) THEN Panic
        ELSE [kind |-> "range", start |-> Get(index, id), end |-> length]
    ELSE [kind |-> "range", start |-> Get(index, id), end |-> Get(index, id + 1)]

\* A get_item that takes a Packet parent for the packets that follow it.
get_item_packet_child(c, parent, index) ==
    IF parent.kind = "None" THEN
        IF ~InRange(c.item_index, index) THEN Panic
        ELSE Transfer(Get(c.item_index, index))
    ELSE IF parent.kind = "Transfer" THEN
        IF ~InRange(c.transfer_index, parent.u) THEN Panic
        ELSE
            LET entry == Get(c.transfer_index, parent.u)
                endpoint_id == entry.endpoint_id
                transfer_id == entry.transfer_id
            IN  IF ~InRange(c.endpoint_data, endpoint_id) THEN Panic
                ELSE
                    LET ep_data == Get(c.endpoint_data, endpoint_id)
                    IN  IF ~InRange(ep_data.transfer_index, transfer_id)
                        THEN Panic
                        ELSE
                            LET offset == Get(ep_data.transfer_index, transfer_id)
                            IN  IF ~InRange(ep_data.transaction_ids, offset + index)
                                THEN Panic
                                ELSE Transaction(parent.u,
                                        Get(ep_data.transaction_ids, offset + index))
    ELSE IF parent.kind = "Transaction" THEN
        IF ~InRange(c.transaction_index, parent.v) THEN Panic
        ELSE Packet(parent.u, parent.v, Get(c.transaction_index, parent.v) + index)
    ELSE Packet(parent.u, parent.v, parent.w + index)

\* Capture::get_item
get_item(c, parent, index) ==
    IF parent.kind = "None" THEN
        IF ~InRange(c.item_index, index) THEN Panic
        ELSE Transfer(Get(c.item_index, index))
    ELSE IF parent.kind = "Transfer" THEN
        IF ~InRange(c.transfer_index, parent.u) THEN Panic
        ELSE
            LET entry == Get(c.transfer_index, parent.u)
                endpoint_id == entry.endpoint_id
                transfer_id == entry.transfer_id
            IN  IF ~InRange(c.endpoint_data, endpoint_id) THEN Panic
                ELSE
                    LET ep_data == Get(c.endpoint_data, endpoint_id)
                    IN  IF ~InRange(ep_data.transfer_index, transfer_id)
                        THEN Panic
                        ELSE
                            LET offset == Get(ep_data.transfer_index, transfer_id)
                            IN  IF ~InRange(ep_data.transaction_ids, offset + index)
                                THEN Panic
                                ELSE Transaction(parent.u,
                                        Get(ep_data.transaction_ids, offset + index))
    ELSE IF parent.kind = "Transaction" THEN
        IF ~InRange(c.transaction_index, parent.v) THEN Panic
        ELSE Packet(parent.u, parent.v, Get(c.transaction_index, parent.v) + index)
    ELSE Panic

\* Capture::item_range
item_range(c, item) ==
    IF item.kind = "Transfer" THEN
        IF ~InRange(c.transfer_index, item.u) THEN Panic
        ELSE
            LET entry == Get(c.transfer_index, item.u)
            IN  IF ~InRange(c.endpoint_data, entry.endpoint_id) THEN Panic
                ELSE
                    LET ep_data == Get(c.endpoint_data, entry.endpoint_id)
                    IN  get_index_range(ep_data.transfer_index,
                                        Len(ep_data.transaction_ids),
                                        entry.transfer_id)
    ELSE IF item.kind = "Transaction" THEN
        get_index_range(c.transaction_index, Len(c.packet_index), item.v)
    ELSE
        get_index_range(c.packet_index, Len(c.packet_data), item.w)

\* range.end - range.start
range_len(range, checks) ==
    IF IsPanic(range) THEN Panic ELSE Sub(range.end, range.start, checks)

\* An item_count that counts the children of end entries like those of
\* start entries.
item_count_any_entry(c, parent, checks) ==
    IF parent.kind = "None" THEN [kind |-> "int", value |-> Len(c.item_index)]
    ELSE IF parent.kind = "Transfer" THEN
        IF ~InRange(c.transfer_index, parent.u) THEN Panic
        ELSE range_len(item_range(c, parent), checks)
    ELSE IF parent.kind = "Transaction" THEN
        range_len(item_range(c, parent), checks)
    ELSE [kind |-> "int", value |-> 0]

\* Capture::item_count
item_count(c, parent, checks) ==
    IF parent.kind = "None" THEN [kind |-> "int", value |-> Len(c.item_index)]
    ELSE IF parent.kind = "Transfer" THEN
        IF ~InRange(c.transfer_index, parent.u) THEN Panic
        ELSE IF Get(c.transfer_index, parent.u).is_start
            THEN range_len(item_range(c, parent), checks)
            ELSE [kind |-> "int", value |-> 0]
    ELSE IF parent.kind = "Transaction" THEN
        range_len(item_range(c, parent), checks)
    ELSE [kind |-> "int", value |-> 0]

\* Capture::get_packet
get_packet(c, index) ==
    LET range == get_index_range(c.packet_index, Len(c.packet_data), index)
    IN  IF IsPanic(range) THEN Panic
        ELSE [kind |-> "bytes",
              bytes |-> SubSeq(c.packet_data, range.start + 1, range.end)]

\* Capture::get_packet_pid
get_packet_pid(c, index) ==
    IF ~InRange(c.packet_index, index) THEN Panic
    ELSE IF ~InRange(c.packet_data, Get(c.packet_index, index)) THEN Panic
    ELSE [kind |-> "pid",
          pid |-> PID_from(Get(c.packet_data, Get(c.packet_index, index)))]

\* A get_endpoint_state that reads the snapshot of the next entry.
get_endpoint_state_next(c, index) ==
    LET range == get_index_range(c.endpoint_state_index,
                                 Len(c.endpoint_states), index + 1)
    IN  IF IsPanic(range) THEN Panic
        ELSE [kind |-> "bytes",
              bytes |-> SubSeq(c.endpoint_states, range.start + 1, range.end)]

\* Capture::get_endpoint_state
get_endpoint_state(c, index) ==
    LET range == get_index_range(c.endpoint_state_index,
                                 Len(c.endpoint_states), index)
    IN  IF IsPanic(range) THEN Panic
        ELSE [kind |-> "bytes",
              bytes |-> SubSeq(c.endpoint_states, range.start + 1, range.end)]

\* Capture::get_transaction_stats.  payload_size is None or Some(size).
get_transaction_stats(c, index, checks) ==
    LET range == get_index_range(c.transaction_index, Len(c.packet_index), index)
    IN  IF IsPanic(range) THEN Panic
        ELSE
            LET packet_count == Sub(range.end, range.start, checks)
                pid == get_packet_pid(c, range.start)
            IN  IF IsPanic(packet_count) \/ IsPanic(pid) THEN Panic
                ELSE IF pid.pid \in {PID_IN, PID_OUT} /\ packet_count.value >= 2 THEN
                    LET data_packet == get_packet(c, range.start + 1)
                    IN  IF IsPanic(data_packet) THEN Panic
                        ELSE IF PID_from(Get(data_packet.bytes, 0))
                                    \in {PID_DATA0, PID_DATA1} THEN
                            LET size == Sub(Len(data_packet.bytes), 3, checks)
                            IN  IF IsPanic(size) THEN Panic
                                ELSE [kind |-> "stats", range |-> range,
                                      pid |-> pid.pid, some |-> TRUE,
                                      size |-> size.value]
                        ELSE [kind |-> "stats", range |-> range,
                              pid |-> pid.pid, some |-> FALSE, size |-> 0]
                ELSE [kind |-> "stats", range |-> range,
                      pid |-> pid.pid, some |-> FALSE, size |-> 0]

\* SetupFields::from_data_packet: bytes 1..8 of the packet, read with
\* packet[i].
SetupFields_from_data_packet(packet) ==
    IF Len(packet) < 9 THEN Panic
    ELSE [kind |-> "setup",
          type_fields |-> Get(packet, 1),
          request |-> Get(packet, 2),
          value |-> U16_from_le_bytes(Get(packet, 3), Get(packet, 4)),
          index |-> U16_from_le_bytes(Get(packet, 5), Get(packet, 6)),
          length |-> U16_from_le_bytes(Get(packet, 7), Get(packet, 8))]

\* Direction: Out = 0, In = 1.
Direction_Out == 0
Direction_In == 1

\* The closure of data_size in Capture::get_summary: what one transaction
\* of the transfer adds to the sum.
data_size_term(c, direction, id, checks) ==
    LET stats == get_transaction_stats(c, id, checks)
    IN  IF IsPanic(stats) THEN Panic
        ELSE
            LET pid == get_packet_pid(c, stats.range.start)
            IN  IF IsPanic(pid) THEN Panic
                ELSE IF direction = Direction_In /\ pid.pid = PID_IN /\ stats.some
                    THEN [kind |-> "int", value |-> stats.size]
                ELSE IF direction = Direction_Out /\ pid.pid = PID_OUT /\ stats.some
                    THEN [kind |-> "int", value |-> stats.size]
                ELSE [kind |-> "int", value |-> 0]

\* data_size in Capture::get_summary: the sum over the transfer's
\* transaction ids.
data_size(c, direction, transaction_ids, checks) ==
    LET terms == [i \in 1..Len(transaction_ids) |->
                     data_size_term(c, direction, transaction_ids[i], checks)]
    IN  IF \E i \in 1..Len(terms) : IsPanic(terms[i]) THEN Panic
        ELSE [kind |-> "int",
              value |-> Sum([i \in 1..Len(terms) |-> terms[i].value])]

\* Capture::get_summary for a control transfer's start entry.  The summary
\* is the values the format! arguments are computed from.
control_summary(c, ep_data, endpoint, range, checks) ==
    LET transaction_ids ==
            SubSeq(ep_data.transaction_ids, range.start + 1, range.end)
    IN  IF transaction_ids = <<>> THEN Panic
        ELSE IF ~InRange(c.transaction_index, transaction_ids[1]) THEN Panic
        ELSE
            LET setup_packet_id == Get(c.transaction_index, transaction_ids[1])
                data_packet == get_packet(c, setup_packet_id + 1)
            IN  IF IsPanic(data_packet) THEN Panic
                ELSE
                    LET fields == SetupFields_from_data_packet(data_packet.bytes)
                    IN  IF IsPanic(fields) THEN Panic
                        ELSE
                            LET direction ==
                                    RequestType_direction(fields.type_fields)
                                size == data_size(c, direction,
                                                  transaction_ids, checks)
                            IN  IF IsPanic(size) THEN Panic
                                ELSE [kind |-> "control",
                                      device_address |-> endpoint.device_address,
                                      direction |-> direction,
                                      fields |-> fields,
                                      data_size |-> size.value]

\* Capture::get_summary
get_summary(c, item, checks) ==
    IF item.kind = "Packet" THEN
        LET packet == get_packet(c, item.w)
        IN  IF IsPanic(packet) THEN Panic
            ELSE
                LET fields == from_packet(packet.bytes)
                    data_bytes == Sub(Len(packet.bytes), 3, checks)
                IN  IF IsPanic(fields) THEN Panic
                    ELSE IF fields.kind = "Data" /\ IsPanic(data_bytes) THEN Panic
                    ELSE [kind |-> "packet",
                          pid |-> PID_from(Get(packet.bytes, 0)),
                          fields |-> fields,
                          data_bytes |-> IF fields.kind = "Data"
                                         THEN data_bytes.value ELSE 0,
                          bytes |-> packet.bytes]
    ELSE IF item.kind = "Transaction" THEN
        LET stats == get_transaction_stats(c, item.v, checks)
        IN  IF IsPanic(stats) THEN Panic
            ELSE
                LET pid == get_packet_pid(c, stats.range.start)
                    count == range_len(stats.range, checks)
                IN  IF IsPanic(pid) \/ IsPanic(count) THEN Panic
                    ELSE [kind |-> "transaction", pid |-> pid.pid,
                          count |-> count.value,
                          some |-> stats.some /\ pid.pid # PID_SOF,
                          size |-> IF pid.pid # PID_SOF THEN stats.size ELSE 0]
    ELSE
        IF ~InRange(c.transfer_index, item.u) THEN Panic
        ELSE
            LET entry == Get(c.transfer_index, item.u)
                endpoint_id == entry.endpoint_id
            IN  IF ~InRange(c.endpoints, endpoint_id) THEN Panic
                ELSE
                    LET endpoint == Get(c.endpoints, endpoint_id)
                        ep_data == Get(c.endpoint_data, endpoint_id)
                    IN  IF ~entry.is_start THEN
                            [kind |-> "end", ep_type |-> ep_data.ep_type,
                             endpoint |-> endpoint]
                        ELSE
                            LET range == item_range(c, item)
                                count == range_len(range, checks)
                            IN  IF IsPanic(count) THEN Panic
                                ELSE IF ep_data.ep_type = "Control" THEN
                                    control_summary(c, ep_data, endpoint,
                                                    range, checks)
                                ELSE [kind |-> "start",
                                      ep_type |-> ep_data.ep_type,
                                      endpoint |-> endpoint,
                                      count |-> count.value]

\* ------------------------------------------------------------------ state

\* The fields of Capture, then: `aborted` (a call panicked: the program is
\* gone), `call` and `ret` (the most recent call and what it returned),
\* `attempts`, `entry_transactions`, `entry_endpoints`, `events` and `arrived` (history, see
\* Capture_new), `todo` (the packets
\* of the bus transaction in flight that the analyzer has not delivered
\* yet) and `begun` (bus transactions begun).
VARIABLES item_index, packet_index, packet_data, transaction_index,
          transfer_index, endpoint_index, endpoints, endpoint_data,
          endpoint_states, endpoint_state_index, last_endpoint_state,
          last_item_endpoint, transaction_state,
          aborted, call, ret, attempts, entry_transactions, entry_endpoints,
          events, arrived,
          todo, begun

capture_vars ==
    <<item_index, packet_index, packet_data, transaction_index,
      transfer_index, endpoint_index, endpoints, endpoint_data,
      endpoint_states, endpoint_state_index, last_endpoint_state,
      last_item_endpoint, transaction_state>>

history_vars ==
    <<attempts, entry_transactions, entry_endpoints, events, arrived>>

vars == <<capture_vars, aborted, call, ret, history_vars, todo, begun>>

\* The capture as the record the operators work on.
Cap ==
    [item_index |-> item_index,
     packet_index |-> packet_index,
     packet_data |-> packet_data,
     transaction_index |-> transaction_index,
     transfer_index |-> transfer_index,
     endpoints |-> endpoints,
     endpoint_data |-> endpoint_data,
     endpoint_index |-> endpoint_index,
     endpoint_states |-> endpoint_states,
     endpoint_state_index |-> endpoint_state_index,
     last_endpoint_state |-> last_endpoint_state,
     last_item_endpoint |-> last_item_endpoint,
     transaction_state |-> transaction_state,
     panicked |-> aborted,
     attempts |-> attempts,
     entry_transactions |-> entry_transactions,
     entry_endpoints |-> entry_endpoints,
     events |-> events,
     arrived |-> arrived]

\* The capture after a call is the record c.
Becomes(c) ==
    /\ item_index' = c.item_index
    /\ packet_index' = c.packet_index
    /\ packet_data' = c.packet_data
    /\ transaction_index' = c.transaction_index
    /\ transfer_index' = c.transfer_index
    /\ endpoints' = c.endpoints
    /\ endpoint_data' = c.endpoint_data
    /\ endpoint_index' = c.endpoint_index
    /\ endpoint_states' = c.endpoint_states
    /\ endpoint_state_index' = c.endpoint_state_index
    /\ last_endpoint_state' = c.last_endpoint_state
    /\ last_item_endpoint' = c.last_item_endpoint
    /\ transaction_state' = c.transaction_state
    /\ aborted' = c.panicked
    /\ attempts' = c.attempts
    /\ entry_transactions' = c.entry_transactions
    /\ entry_endpoints' = c.entry_endpoints
    /\ events' = c.events
    /\ arrived' = c.arrived

\* The capture is the record c.
Is(c) ==
    /\ item_index = c.item_index
    /\ packet_index = c.packet_index
    /\ packet_data = c.packet_data
    /\ transaction_index = c.transaction_index
    /\ transfer_index = c.transfer_index
    /\ endpoints = c.endpoints
    /\ endpoint_data = c.endpoint_data
    /\ endpoint_index = c.endpoint_index
    /\ endpoint_states = c.endpoint_states
    /\ endpoint_state_index = c.endpoint_state_index
    /\ last_endpoint_state = c.last_endpoint_state
    /\ last_item_endpoint = c.last_item_endpoint
    /\ transaction_state = c.transaction_state
    /\ aborted = c.panicked
    /\ attempts = c.attempts
    /\ entry_transactions = c.entry_transactions
    /\ entry_endpoints = c.entry_endpoints
    /\ events = c.events
    /\ arrived = c.arrived

NoCall == [op |-> "none"]

Init ==
    /\ Is(Capture_new)
    /\ call = NoCall
    /\ ret = None
    /\ todo = <<>>
    /\ begun = 0

\* ----------------------------------------------------------------- inputs

\* Packets as the analyzer delivers them, byte 0 the PID.  Tokens address
\* device 2: endpoint 0 (control) or endpoint 1 (bulk).
PKT_SETUP == <<45, 2, 168>>
PKT_IN == <<105, 2, 168>>
PKT_OUT == <<225, 2, 168>>
PKT_IN_BULK == <<105, 130, 24>>
PKT_OUT_BULK == <<225, 130, 24>>
PKT_SOF == <<165, 222, 30>>
\* The data stage of a SETUP: GET_DESCRIPTOR(device), device to host,
\* wLength 2.
PKT_DATA0_GET == <<195, 128, 6, 0, 1, 0, 0, 2, 0, 170, 213>>
\* DATA1 with two data bytes, and with none.
PKT_DATA1 == <<75, 18, 1, 170, 213>>
PKT_DATA1_EMPTY == <<75, 0, 0>>
PKT_ACK == <<210>>
PKT_NAK == <<90>>
\* Truncated packets: a lone SETUP PID, a lone DATA0 PID, DATA1 and one byte.
PKT_SETUP_SHORT == <<45>>
PKT_DATA0_SHORT == <<195>>
PKT_DATA1_SHORT == <<75, 7>>
\* A byte that is no PID.
PKT_UNKNOWN == <<66>>

\* Any packet may arrive at any time (Spec).
RawPackets ==
    {PKT_SETUP, PKT_IN_BULK, PKT_SOF, PKT_DATA0_GET, PKT_DATA1,
     PKT_DATA1_SHORT, PKT_ACK, PKT_UNKNOWN, PKT_SETUP_SHORT, PKT_DATA0_SHORT}

\* What a working bus carries (SpecBus): whole transactions, complete or
\* cut short by a NAK or a lost handshake, and SOFs between them.
BusTransactions ==
    {<<PKT_SOF>>,
     <<PKT_SETUP, PKT_DATA0_GET, PKT_ACK>>,
     <<PKT_IN, PKT_DATA1, PKT_ACK>>,
     <<PKT_OUT, PKT_DATA1_EMPTY, PKT_ACK>>,
     <<PKT_IN, PKT_NAK>>,
     <<PKT_IN, PKT_DATA1>>,
     <<PKT_IN_BULK, PKT_DATA1, PKT_ACK>>}

\* What a bus with faults carries (SpecFaulty): control and bulk transactions
\* complete, cut short by a lost handshake, or in a direction the endpoint's
\* transfer does not allow, and packets that belong to no transaction.
FaultyTransactions ==
    {<<PKT_SETUP, PKT_DATA0_GET, PKT_ACK>>,
     <<PKT_SETUP, PKT_DATA0_GET>>,
     <<PKT_IN, PKT_DATA1, PKT_ACK>>,
     <<PKT_IN_BULK, PKT_DATA1, PKT_ACK>>,
     <<PKT_OUT_BULK, PKT_DATA1, PKT_ACK>>,
     <<PKT_OUT_BULK, PKT_DATA1>>,
     <<PKT_ACK>>,
     <<PKT_SOF>>}

\* The items a query is made about: every transfer entry, the children
\* get_item gives for them, and their children.
TransferItems == {Transfer(u) : u \in 0..(Len(transfer_index) - 1)}

Children(parent) ==
    LET n == item_count(Cap, parent, TRUE)
    IN  IF IsPanic(n) THEN {}
        ELSE {get_item(Cap, parent, i) : i \in 0..(n.value - 1)} \ {Panic}

TransactionItems == UNION {Children(t) : t \in TransferItems}
PacketItems == UNION {Children(t) : t \in TransactionItems}

\* ---------------------------------------------------------------- actions

\* A query reads the capture and leaves it as it was (Query below), so
\* whatever call follows a query does what it does without the query
\* before it.  The model therefore follows a behaviour up to its first
\* query: the states reached are those reached with queries anywhere.
Browsing == call.op \notin {"none", "handle_raw_packet"}

\* handle_raw_packet(packet): the call, and what it leaves behind.
Ingest(packet) ==
    /\ ~Browsing
    /\ Becomes(handle_raw_packet(Cap, packet))
    /\ call' = [op |-> "handle_raw_packet", packet |-> packet]
    /\ ret' = None

\* Spec: the next packet is any packet.
HandleRawPacket(packet) ==
    /\ ~aborted
    /\ Len(packet_index) < MaxPackets
    /\ Ingest(packet)
    /\ UNCHANGED <<todo, begun>>

\* SpecBus: a bus transaction begins and its first packet is delivered.
BeginTransaction(packets) ==
    /\ ~aborted
    /\ todo = <<>>
    /\ begun < MaxTransactions
    /\ Ingest(Head(packets))
    /\ todo' = Tail(packets)
    /\ begun' = begun + 1

\* SpecBus: the next packet of the transaction in flight is delivered.
ContinueTransaction ==
    /\ ~aborted
    /\ todo # <<>>
    /\ Ingest(Head(todo))
    /\ todo' = Tail(todo)
    /\ UNCHANGED begun

\* A query: the capture's indices are read, not written; a panic ends the
\* program.
Query(c, r) ==
    /\ ~aborted
    /\ ~Browsing
    /\ call' = c
    /\ ret' = r
    /\ aborted' = IsPanic(r)
    /\ UNCHANGED <<capture_vars, history_vars, todo, begun>>

\* item_count(parent)
ItemCount(parent, checks) ==
    Query([op |-> "item_count", parent |-> parent],
          item_count(Cap, parent, checks))

\* get_item(parent, index)
GetItem(parent, index) ==
    Query([op |-> "get_item", parent |-> parent, index |-> index],
          get_item(Cap, parent, index))

\* get_summary(item)
GetSummary(item, checks) ==
    Query([op |-> "get_summary", item |-> item],
          get_summary(Cap, item, checks))

\* Spec: a query about any item.
Next ==
    \/ \E packet \in RawPackets : HandleRawPacket(packet)
    \/ \E parent \in {None} \cup TransferItems \cup TransactionItems,
          checks \in BOOLEAN : ItemCount(parent, checks)
    \/ \E parent \in {None} \cup TransferItems \cup TransactionItems
                            \cup PacketItems,
          index \in 0..MaxIndex : GetItem(parent, index)
    \/ \E item \in TransferItems \cup TransactionItems \cup PacketItems,
          checks \in BOOLEAN : GetSummary(item, checks)

\* SpecBus: the queries of the top level of the view, about transfers.
NextBus ==
    \/ \E packets \in BusTransactions : BeginTransaction(packets)
    \/ ContinueTransaction
    \/ \E parent \in {None} \cup TransferItems, checks \in BOOLEAN :
          ItemCount(parent, checks)
    \/ \E item \in TransferItems, checks \in BOOLEAN : GetSummary(item, checks)

Spec == Init /\ [][Next]_vars

SpecBus == Init /\ [][NextBus]_vars

\* SpecFaulty: the decoder alone, on a bus with faults.
NextFaulty ==
    \/ \E packets \in FaultyTransactions : BeginTransaction(packets)
    \/ ContinueTransaction

SpecFaulty == Init /\ [][NextFaulty]_vars

\* ------------------------------------------------- the packed bit fields

\* SpecFields: one call of a pure function, from_packet or the construction
\* of a TransferIndexEntry, on arguments drawn when the behaviour begins.
\* `call` is the call and `ret` is NotReturned until it has returned.
NotReturned == [kind |-> "pending"]

\* Bytes after the PID of the packets given to from_packet.
MaxPayload == 3
\* Largest transfer id given to a TransferIndexEntry.
MaxTransferId == 1

USB_MAX_DEVICES == 128
USB_MAX_ENDPOINTS == 16

\* The ids Capture hands out: Capture::new registers endpoints 0 and 1, and
\* transaction_start gives the next id, endpoints.len(), to each pair
\* (device address, endpoint number) of a token whose endpoint_index slot
\* is still negative.
AllocatedIds == 0..(2 + USB_MAX_DEVICES * USB_MAX_ENDPOINTS - 1)

\* The bytes of the packets in the tests of from_packet, and the extremes.
FieldBytes == {0, 2, 24, 30, 130, 168, 222, 255}

Payloads(n) == UNION {[1..k -> FieldBytes] : k \in 0..n}

\* The PIDs from_packet reads fields for.
FieldPIDs == {PID_SOF, PID_SETUP, PID_IN, PID_OUT, PID_DATA0, PID_DATA1}

\* Every first byte with a payload of up to two bytes, and the PIDs with
\* fields with every payload of up to MaxPayload bytes.
FieldPackets ==
    {<<pid>> \o payload : pid \in 0..255, payload \in Payloads(2)}
        \cup {<<pid>> \o payload :
                 pid \in FieldPIDs, payload \in Payloads(MaxPayload)}

InitFields ==
    /\ Is(Capture_new)
    /\ call \in {[op |-> "from_packet", packet |-> packet] :
                    packet \in FieldPackets}
               \cup {[op |-> "TransferIndexEntry", endpoint_id |-> id,
                      transfer_id |-> transfer_id, is_start |-> is_start] :
                        id \in AllocatedIds,
                        transfer_id \in 0..MaxTransferId,
                        is_start \in BOOLEAN}
    /\ ret = NotReturned
    /\ todo = <<>>
    /\ begun = 0

\* The call returns r, or panics.
Returns(r) ==
    /\ ret = NotReturned
    /\ ret' = r
    /\ aborted' = IsPanic(r)
    /\ UNCHANGED <<capture_vars, call, history_vars, todo, begun>>

\* PacketFields::from_packet(packet)
FromPacket ==
    /\ call.op = "from_packet"
    /\ Returns(from_packet(call.packet))

\* The entry add_transfer_entry builds: default, then set_endpoint_id(id as
\* u16), set_transfer_id, set_is_start.
NewTransferIndexEntry ==
    /\ call.op = "TransferIndexEntry"
    /\ Returns([kind |-> "entry",
                 entry |-> TransferIndexEntry(call.endpoint_id % 65536,
                                              call.transfer_id,
                                              call.is_start)])

NextFields ==
    \/ FromPacket
    \/ NewTransferIndexEntry

SpecFields == InitFields /\ [][NextFields]_vars

\* ------------------------------------------------- what the claims speak of

\* The item API reads the capture and leaves it as it is, so what holds of
\* the capture after every handle_raw_packet call holds of it while it is
\* browsed too.  The capture is looked at after the calls that write it.
QueriesReadOnly == [][Browsing' => UNCHANGED <<capture_vars, history_vars>>]_vars
AfterIngest == ~aborted /\ ~Browsing

\* The packets ingested so far, read back from the packet store.
PacketCount == Len(packet_index)
PacketBytes(w) ==
    SubSeq(packet_data, Get(packet_index, w) + 1,
           IF w + 1 < PacketCount THEN Get(packet_index, w + 1)
           ELSE Len(packet_data))
Ingested == [i \in 1..PacketCount |-> PacketBytes(i - 1)]
IngestedPIDs == [i \in 1..PacketCount |-> PID_from(Head(Ingested[i]))]

\* The packets of the pending transaction are the last `count` ones.
Pending == transaction_state.count
Recorded == PacketCount - Pending

TransactionIds == 0..(Len(transaction_index) - 1)
EntryIds == 0..(Len(transfer_index) - 1)
EndpointIds == 0..(Len(endpoint_data) - 1)
Entry(k) == Get(transfer_index, k)
StartEntries == {k \in EntryIds : Entry(k).is_start}
EndEntries == {k \in EntryIds : ~Entry(k).is_start}
ItemEntries == {item_index[i] : i \in 1..Len(item_index)}

\* The packets of recorded transaction v, as the decoder grouped them: from
\* its start to the start of the next one, or to the pending transaction.
TransactionPackets(v) ==
    {w \in 0..(Recorded - 1) :
        /\ Get(transaction_index, v) <= w
        /\ w < (IF v + 1 < Len(transaction_index)
                THEN Get(transaction_index, v + 1) ELSE Recorded)}

\* The packets the item API gives for transaction v.
ApiPackets(v) ==
    LET n == item_count(Cap, Transaction(0, v), TRUE)
    IN  IF IsPanic(n) THEN {}
        ELSE {get_item(Cap, Transaction(0, v), i).w : i \in 0..(n.value - 1)}

\* The transactions the item API gives for transfer entry k, in order.
ApiTransactions(k) ==
    LET n == item_count(Cap, Transfer(k), TRUE)
    IN  IF IsPanic(n) THEN <<>>
        ELSE [i \in 1..n.value |-> get_item(Cap, Transfer(k), i - 1)]

\* The entries after k for the endpoint of entry k.
LaterEntries(k) ==
    {j \in EntryIds : j > k /\ Entry(j).endpoint_id = Entry(k).endpoint_id}
Min(S) == CHOOSE x \in S : \A y \in S : x <= y
\* A transfer that has been closed: its start entry and its end entry.
ClosedTransfers ==
    {<<k, Min(LaterEntries(k))>> : k \in {s \in StartEntries : LaterEntries(s) # {}}}

\* -------------------------------------------------------------------- C1

\* C1 as claimed: after any sequence of handle_raw_packet calls every
\* ingested packet is in exactly one transaction, and every transaction in
\* exactly one transfer.
C1_Original ==
    AfterIngest =>
        /\ \A w \in 0..(PacketCount - 1) :
              Cardinality({v \in TransactionIds : w \in ApiPackets(v)}) = 1
        /\ \A v \in TransactionIds :
              Cardinality({k \in StartEntries :
                  \E i \in 1..Len(ApiTransactions(k)) :
                      ApiTransactions(k)[i].v = v}) = 1

\* C1 amended: every ingested packet that is not part of the pending (not
\* yet ended) transaction is in exactly one recorded transaction; the
\* pending packets are the last transaction_state.count packets; and every
\* recorded transaction is a child of exactly one start entry of the
\* transfer index, at exactly one position, that entry belonging to the
\* endpoint the transaction is listed under.
C1_PacketsPartitioned ==
    AfterIngest =>
        LET api == [k \in StartEntries |-> ApiTransactions(k)]
            packets == [v \in TransactionIds |-> TransactionPackets(v)]
            listed == [e \in EndpointIds |->
                          {endpoint_data[e + 1].transaction_ids[i] :
                              i \in 1..Len(endpoint_data[e + 1].transaction_ids)}]
        IN
        /\ Pending <= PacketCount
        /\ Pending > 0 => transaction_state.start = Recorded
        /\ \A w \in 0..(Recorded - 1) :
              Cardinality({v \in TransactionIds : w \in packets[v]}) = 1
        /\ \A v \in TransactionIds :
              /\ packets[v] # {}
              /\ packets[v] \subseteq ApiPackets(v)
              /\ Cardinality({<<k, i>> \in StartEntries \X (1..Len(transaction_index)) :
                    /\ i <= Len(api[k])
                    /\ api[k][i].v = v}) = 1
              /\ Cardinality({e \in EndpointIds : v \in listed[e]}) = 1
        /\ \A k \in StartEntries :
              \A i \in 1..Len(api[k]) :
                  api[k][i].v \in listed[Entry(k).endpoint_id]

\* Two transactions recorded, in a transfer each, and one pending.
C1_Witness ==
    /\ AfterIngest
    /\ Len(transaction_index) >= 2
    /\ Cardinality(StartEntries) >= 2
    /\ Pending > 0

\* -------------------------------------------------------------------- C2

\* C2 as claimed: every start entry of the transfer index has a later end
\* entry with the same endpoint_id and the same transfer_id, with no entry
\* for that pair in between.
C2_Original ==
    AfterIngest =>
        \A k \in StartEntries :
            \E j \in EndEntries :
                /\ j > k
                /\ Entry(j).endpoint_id = Entry(k).endpoint_id
                /\ Entry(j).transfer_id = Entry(k).transfer_id
                /\ \A m \in EntryIds :
                      (k < m /\ m < j) =>
                          ~(/\ Entry(m).endpoint_id = Entry(k).endpoint_id
                            /\ Entry(m).transfer_id = Entry(k).transfer_id)

\* C2 amended: a start entry (endpoint e, transfer_id t) is either the last
\* entry of e, and then e's transfer is still open (transaction_count > 0),
\* or the next entry of e is an end entry, whose transfer_id is t + 1 (the
\* number of transfers e has started by then). Every end entry closes a
\* start entry in this way, and an endpoint whose last entry is an end entry
\* has no open transfer.
C2_StartsMatched ==
    AfterIngest =>
        /\ \A k \in StartEntries :
              IF LaterEntries(k) = {}
              THEN endpoint_data[Entry(k).endpoint_id + 1].transaction_count > 0
              ELSE LET j == Min(LaterEntries(k))
                   IN  /\ ~Entry(j).is_start
                       /\ Entry(j).transfer_id = Entry(k).transfer_id + 1
        /\ \A j \in EndEntries :
              /\ \E c \in ClosedTransfers : c[2] = j
              /\ LaterEntries(j) = {} =>
                    endpoint_data[Entry(j).endpoint_id + 1].transaction_count = 0

\* One transfer closed and another one still open.
C2_Witness ==
    /\ AfterIngest
    /\ ClosedTransfers # {}
    /\ \E k \in StartEntries : LaterEntries(k) = {}

\* -------------------------------------------------------------------- C3

\* The complete control transfer of the scenario: SETUP + DATA0 + ACK,
\* IN + DATA1 + ACK, OUT + DATA1 + ACK on a fresh capture.
ControlTransfer ==
    <<PKT_SETUP, PKT_DATA0_GET, PKT_ACK, PKT_IN, PKT_DATA1, PKT_ACK,
      PKT_OUT, PKT_DATA1_EMPTY, PKT_ACK>>

\* C3 as claimed: after the complete control transfer, item_count(None) is 2.
C3_Original ==
    (~aborted /\ Ingested = ControlTransfer) =>
        item_count(Cap, None, TRUE) = [kind |-> "int", value |-> 2]

\* C3 amended: after the complete control transfer, item_count(None) is 1:
\* the transfer's start entry is the only top-level item, because nothing
\* came between its start and its end, and its end entry is in the transfer
\* index but not in the item index.
C3_ControlTransferOneItem ==
    (~aborted /\ Ingested = ControlTransfer) =>
        /\ item_count(Cap, None, TRUE) = [kind |-> "int", value |-> 1]
        /\ (call.op = "item_count" /\ call.parent = None) => ret.value = 1
        /\ get_item(Cap, None, 0) = Transfer(0)
        /\ Entry(0).is_start /\ ~Entry(1).is_start
        /\ Len(transfer_index) = 2
        /\ Len(ApiTransactions(0)) = 3

\* item_count(None) was called after the complete control transfer.
C3_Witness ==
    /\ ~aborted
    /\ Ingested = ControlTransfer
    /\ call.op = "item_count"
    /\ call.parent = None

\* -------------------------------------------------------------------- C4

\* The endpoint under which recorded transaction v is listed.
TransactionEndpoint(v) ==
    CHOOSE e \in EndpointIds :
        \E i \in 1..Len(endpoint_data[e + 1].transaction_ids) :
            endpoint_data[e + 1].transaction_ids[i] = v

\* The transactions of other endpoints that were handled after the one that
\* started transfer <<k, j>> and before the one that ended it.
ActivityBetween(k, j) ==
    {v \in TransactionIds :
        /\ Get(entry_transactions, k) < v
        /\ v < Get(entry_transactions, j)
        /\ TransactionEndpoint(v) # Entry(k).endpoint_id}

\* C4 as claimed: the end entry of a transfer is a top-level item exactly
\* when activity on another endpoint came between the transfer's start and
\* its end: none gives one item, some gives two.
C4_Original ==
    AfterIngest =>
        \A t \in ClosedTransfers :
            /\ t[1] \in ItemEntries
            /\ t[2] \in ItemEntries <=> ActivityBetween(t[1], t[2]) # {}

\* C4 amended: the start entry of a closed transfer is always a top-level
\* item, and its end entry is one exactly when a transfer entry of another
\* endpoint (that endpoint starting or ending a transfer) lies between the
\* two in the transfer index; transactions that another endpoint merely
\* appends to its open transfer in between do not separate them. No entry
\* is listed twice, so such a transfer has exactly one or exactly two items.
C4_EndItemIffSeparated ==
    AfterIngest =>
        /\ \A t \in ClosedTransfers :
              /\ t[1] \in ItemEntries
              /\ t[2] \in ItemEntries <=> t[2] > t[1] + 1
              /\ \A m \in EntryIds :
                    (t[1] < m /\ m < t[2]) =>
                        Entry(m).endpoint_id # Entry(t[1]).endpoint_id
        /\ \A i, j \in 1..Len(item_index) : i < j => item_index[i] < item_index[j]
        /\ StartEntries \subseteq ItemEntries

\* A transfer with one item, and one with two, whose end was separated from
\* its start.
C4_Witness ==
    /\ AfterIngest
    /\ \E t \in ClosedTransfers : t[2] \notin ItemEntries
    /\ \E t \in ClosedTransfers : t[2] \in ItemEntries

\* -------------------------------------------------------------------- C5

\* n SOF packets were ingested and then one packet that is not a SOF.
SofRunEnded(n) ==
    /\ PacketCount = n + 1
    /\ \A i \in 1..n : IngestedPIDs[i] = PID_SOF
    /\ IngestedPIDs[n + 1] # PID_SOF

\* C5 as claimed: n consecutive SOF packets on a fresh capture yield a
\* single Framing transfer on endpoint id 1 containing n transactions.
C5_Original ==
    AfterIngest =>
        \A n \in 1..MaxTransactions :
            SofRunEnded(n) =>
                /\ Len(endpoint_data[2].transfer_index) = 1
                /\ Len(endpoint_data[2].transaction_ids) = n

\* C5 amended: n consecutive SOF packets on a fresh capture are grouped
\* into one pending transaction of n packets on endpoint id 1, and nothing
\* is recorded before a packet that is not a SOF ends it; that packet makes
\* it transaction 0, of n packets, the only transaction of a single Framing
\* transfer on endpoint id 1, which stays open.
C5_SofRunOneTransaction ==
    AfterIngest =>
        \A n \in 1..MaxTransactions :
            /\ (PacketCount = n /\ \A i \in 1..n : IngestedPIDs[i] = PID_SOF) =>
                  /\ transaction_state.count = n
                  /\ transaction_state.endpoint_id = 1
                  /\ transaction_index = <<>>
                  /\ transfer_index = <<>>
            /\ SofRunEnded(n) =>
                  /\ endpoints[2].endpoint_number = EndpointType_Framing
                  /\ endpoint_data[2].transfer_index = <<0>>
                  /\ endpoint_data[2].transaction_ids = <<0>>
                  /\ endpoint_data[2].transaction_count = 1
                  /\ Get(transaction_index, 0) = 0
                  /\ TransactionPackets(0) = 0..(n - 1)
                  /\ Entry(0) = TransferIndexEntry(1, 0, TRUE)
                  /\ \A k \in EntryIds \ {0} : Entry(k).endpoint_id # 1
                  /\ ApiTransactions(0) = <<Transaction(0, 0)>>

\* Three SOF packets and the packet that ended their transaction.
C5_Witness ==
    /\ AfterIngest
    /\ SofRunEnded(3)

\* -------------------------------------------------------------------- C6

\* The condition of the retry guard, for one transfer_update of the last
\* handle_raw_packet call.
RetryGuard(ev) ==
    /\ ev.before.transaction_count > 0
    /\ ev.status # "INVALID"
    /\ ~(ev.count = 3 /\ ev.last = PID_ACK)

\* C6: when a transaction ends on an endpoint with an open transfer
\* (transaction_count > 0), its endpoint status is not INVALID and it is not
\* completed (3 packets, last PID ACK), it is appended as a failed attempt:
\* its id is added to ep.transaction_ids and transaction_count goes up by
\* one, while ep.last, ep.transfer_index, the global transfer_index, the
\* item_index, the endpoint-state timeline and last_item_endpoint stay as
\* they were.
C6_RetryGuard ==
    AfterIngest =>
        \A i \in 1..Len(events) :
            RetryGuard(events[i]) =>
                /\ events[i].after =
                      [events[i].before EXCEPT
                          !.transaction_ids = Push(@, events[i].transaction_id),
                          !.transaction_count = @ + 1]
                /\ Get(attempts, events[i].transaction_id) = FALSE

\* The last call ended a transaction that the retry guard caught, on an
\* endpoint whose transfer had a successful transaction with another PID.
C6_Witness ==
    /\ AfterIngest
    /\ \E i \in 1..Len(events) :
          /\ RetryGuard(events[i])
          /\ events[i].before.last # PID_Malformed
          /\ events[i].before.last # events[i].first

\* -------------------------------------------------------------------- C7

\* The control transfers the item API summarizes: the start entries whose
\* summary is that of a control transfer.
ControlSummaries ==
    {<<u, checks>> \in StartEntries \X BOOLEAN :
        get_summary(Cap, Transfer(u), checks).kind = "control"}

\* The payload of recorded transaction v in the given direction, read from
\* the packets: the length of its data packet less PID and CRC, if its
\* token is that of the direction and its second packet is DATA0 or DATA1.
Payload(v, direction) ==
    LET first == Get(transaction_index, v) + 1
    IN  IF /\ Cardinality(TransactionPackets(v)) >= 2
           /\ IngestedPIDs[first] =
                  (IF direction = Direction_In THEN PID_IN ELSE PID_OUT)
           /\ IngestedPIDs[first + 1] \in {PID_DATA0, PID_DATA1}
        THEN Len(Ingested[first + 1]) - 3
        ELSE 0

\* C7: data_size counts only the payloads of successful transactions in the
\* request's direction; a transaction appended as a failed attempt
\* contributes nothing, whatever packets it contains.
C7_Original ==
    AfterIngest =>
        \A s \in ControlSummaries :
            LET r == get_summary(Cap, Transfer(s[1]), s[2])
                ts == ApiTransactions(s[1])
            IN  r.data_size =
                    Sum([i \in 1..Len(ts) |->
                            IF Get(attempts, ts[i].v)
                            THEN Payload(ts[i].v, r.direction) ELSE 0])

\* What get_summary computes instead (C7): data_size is the sum, over all
\* transactions listed in the transfer, successful or appended as failed
\* attempts, of the payload of each transaction whose token is in the
\* request's direction and whose second packet is DATA0 or DATA1; a failed
\* attempt that carries such a data packet contributes its payload.
C7_DataSize ==
    /\ AfterIngest =>
          \A s \in ControlSummaries :
              LET r == get_summary(Cap, Transfer(s[1]), s[2])
                  ts == ApiTransactions(s[1])
              IN  r.data_size =
                      Sum([i \in 1..Len(ts) |-> Payload(ts[i].v, r.direction)])
    /\ (call.op = "get_summary" /\ ret.kind = "control") =>
          LET ts == ApiTransactions(call.item.u)
          IN  ret.data_size =
                  Sum([i \in 1..Len(ts) |-> Payload(ts[i].v, ret.direction)])

\* The summary of a control transfer was asked for, and the transfer lists
\* a failed attempt that carries a payload in the request's direction (C7).
C7_FailedAttemptCounted ==
    /\ call.op = "get_summary"
    /\ ret.kind = "control"
    /\ ret.data_size > 0
    /\ \E i \in 1..Len(ApiTransactions(call.item.u)) :
          LET v == ApiTransactions(call.item.u)[i].v
          IN  ~Get(attempts, v) /\ Payload(v, ret.direction) > 0

\* -------------------------------------------------------------------- C8

\* C8: for every packet of length >= 1, in any reachable capture state,
\* handle_raw_packet completes without aborting and the packet is stored.
C8_NeverRejects ==
    (call.op = "handle_raw_packet" /\ Len(call.packet) >= 1) =>
        /\ ~aborted
        /\ PacketCount >= 1
        /\ Ingested[PacketCount] = call.packet

\* -------------------------------------------------------------------- C9

\* C9: get_item with a Packet parent aborts, for every index and every
\* capture state; it returns no item and changes nothing of the capture.
C9_PacketParentAborts ==
    [][(call'.op = "get_item" /\ call'.parent.kind = "Packet") =>
          /\ ret' = Panic
          /\ aborted'
          /\ UNCHANGED capture_vars]_vars

\* get_item was called with a Packet parent, on a capture with a recorded
\* transaction.
C9_Witness ==
    /\ call.op = "get_item"
    /\ call.parent.kind = "Packet"
    /\ call.index > 0
    /\ ret = Panic

\* ------------------------------------------------------------------- C10

\* C10: between ingest calls, for every position e of the transfer index,
\* item_count(Some(Transfer(e))) is 0 if and only if the entry at e has
\* is_start = false: every start entry has at least one child transaction
\* and every end entry has none.
C10_NoChildrenIffEnd ==
    /\ AfterIngest =>
          \A e \in EntryIds :
              \A checks \in BOOLEAN :
                  LET n == item_count(Cap, Transfer(e), checks)
                  IN  /\ n.kind = "int"
                      /\ n.value = 0 <=> ~Entry(e).is_start
    /\ (call.op = "item_count" /\ call.parent.kind = "Transfer") =>
          /\ ret.kind = "int"
          /\ ret.value = 0 <=> ~Entry(call.parent.u).is_start

\* item_count was called for an end entry, on a capture that also has a
\* start entry with several children.
C10_Witness ==
    /\ call.op = "item_count"
    /\ call.parent.kind = "Transfer"
    /\ ~Entry(call.parent.u).is_start
    /\ ret = [kind |-> "int", value |-> 0]
    /\ \E e \in StartEntries : item_count(Cap, Transfer(e), TRUE).value >= 2

\* ------------------------------------------------------------------- C11

\* The values of an index never go down in push order.
NonDecreasing(index) ==
    \A i \in 1..(Len(index) - 1) : index[i] <= index[i + 1]

\* C11: after any sequence of ingest calls, the values pushed to every
\* monotonic index are non-decreasing in push order: packet_index,
\* transaction_index, item_index, endpoint_state_index, and each endpoint's
\* transaction_ids and transfer_index.
C11_IndicesNonDecreasing ==
    AfterIngest =>
        /\ NonDecreasing(packet_index)
        /\ NonDecreasing(transaction_index)
        /\ NonDecreasing(item_index)
        /\ NonDecreasing(endpoint_state_index)
        /\ \A e \in EndpointIds :
              /\ NonDecreasing(endpoint_data[e + 1].transaction_ids)
              /\ NonDecreasing(endpoint_data[e + 1].transfer_index)

\* Every index has been pushed to more than once, the indices of one
\* endpoint included.
C11_Witness ==
    /\ AfterIngest
    /\ Len(packet_index) >= 2
    /\ Len(transaction_index) >= 3
    /\ Len(item_index) >= 2
    /\ Len(endpoint_state_index) >= 2
    /\ \E e \in EndpointIds :
          /\ Len(endpoint_data[e + 1].transaction_ids) >= 2
          /\ Len(endpoint_data[e + 1].transfer_index) >= 2

\* ------------------------------------------------------------------- C12

\* The endpoint a transaction that starts with the given packet is for, as
\* its first packet tells: Framing for a SOF, the endpoint allocated for the
\* address and number of a token, Invalid for anything else.
PacketEndpoint(packet) ==
    LET fields == from_packet(packet)
    IN  IF fields.kind = "SOF" THEN 1
        ELSE IF fields.kind = "Token"
        THEN endpoint_index_get(Cap, device_address(fields.fields),
                                endpoint_number(fields.fields))
        ELSE 0

StrictlyIncreasing(index) ==
    \A i \in 1..(Len(index) - 1) : index[i] < index[i + 1]

\* C12: for each endpoint, ep.transaction_ids is strictly increasing, and
\* each value in it is the index in the global transaction_index of the
\* very transaction that caused the append, a valid index once the ingest
\* call has returned; no global transaction id appears twice on one endpoint
\* or on two endpoints.
C12_TransactionIds ==
    AfterIngest =>
        /\ \A e \in EndpointIds :
              LET ids == endpoint_data[e + 1].transaction_ids
              IN  /\ StrictlyIncreasing(ids)
                  /\ \A i \in 1..Len(ids) :
                        /\ ids[i] \in TransactionIds
                        /\ PacketEndpoint(
                               Ingested[Get(transaction_index, ids[i]) + 1]) = e
        /\ \A e, f \in EndpointIds :
              \A i \in 1..Len(endpoint_data[e + 1].transaction_ids) :
                  \A j \in 1..Len(endpoint_data[f + 1].transaction_ids) :
                      endpoint_data[e + 1].transaction_ids[i]
                          = endpoint_data[f + 1].transaction_ids[j]
                      => (e = f /\ i = j)

\* Two endpoints list two transactions each, in turns.
C12_Witness ==
    /\ AfterIngest
    /\ \E e, f \in EndpointIds :
          /\ e # f
          /\ Len(endpoint_data[e + 1].transaction_ids) >= 2
          /\ Len(endpoint_data[f + 1].transaction_ids) >= 2
          /\ endpoint_data[e + 1].transaction_ids[1]
                 < endpoint_data[f + 1].transaction_ids[1]
          /\ endpoint_data[f + 1].transaction_ids[1]
                 < endpoint_data[e + 1].transaction_ids[2]

\* ------------------------------------------------------------------- C13

\* The length of the snapshot get_endpoint_state gives for each transfer
\* entry, in order.
SnapshotLengths ==
    [k \in 1..Len(endpoint_state_index) |->
        Len(get_endpoint_state(Cap, k - 1).bytes)]

\* C13: in every reachable state, endpoint_state_index.len() equals
\* transfer_index.len(), and endpoint_states.len() equals the sum of the
\* lengths of all snapshots taken so far: one snapshot per transfer entry,
\* none otherwise.
C13_SnapshotTotals ==
    ~Browsing =>
        /\ Len(endpoint_state_index) = Len(transfer_index)
        /\ Len(entry_endpoints) = Len(transfer_index)
        /\ \A k \in EntryIds : ~IsPanic(get_endpoint_state(Cap, k))
        /\ Len(endpoint_states) = Sum(SnapshotLengths)
        /\ Len(endpoint_states) = Sum(entry_endpoints)

\* Snapshots of different lengths have been taken.
C13_Witness ==
    /\ AfterIngest
    /\ Len(transfer_index) >= 3
    /\ \E j, k \in 1..Len(entry_endpoints) :
          entry_endpoints[j] # entry_endpoints[k]

\* ------------------------------------------------------------------- C14

\* C14: for every transfer entry k, the endpoint-state snapshot retrieved
\* for index k has as many states as endpoints were allocated at the moment
\* entry k was appended; snapshot lengths never decrease as k increases.
C14_SnapshotLengths ==
    ~Browsing =>
        /\ \A k \in EntryIds :
              LET snapshot == get_endpoint_state(Cap, k)
              IN  /\ ~IsPanic(snapshot)
                  /\ Len(snapshot.bytes) = Get(entry_endpoints, k)
        /\ NonDecreasing(SnapshotLengths)
        /\ \A k \in EntryIds : Get(entry_endpoints, k) <= Len(endpoints)

\* Entries were appended before and after endpoints were allocated: the
\* last snapshot is longer than the first one.
C14_Witness ==
    /\ AfterIngest
    /\ Len(transfer_index) >= 3
    /\ SnapshotLengths[1] < SnapshotLengths[Len(transfer_index)]
    /\ SnapshotLengths[Len(transfer_index)] = Len(endpoints)

\* ------------------------------------------------------------------- C15

\* C15: after ingesting packets p0 .. pn-1 in order, for every i < n the
\* bytes of packet_data from packet_index[i] to packet_index[i+1] (to the
\* end of packet_data for the last packet) are p_i exactly: get_packet(i)
\* returns the i-th ingested packet verbatim, and packet ids follow the
\* order of arrival.
C15_PacketRoundTrip ==
    AfterIngest =>
        /\ Len(packet_index) = Len(arrived)
        /\ \A i \in 0..(Len(arrived) - 1) :
              /\ get_packet(Cap, i) = [kind |-> "bytes", bytes |-> arrived[i + 1]]
              /\ PacketBytes(i) = arrived[i + 1]
              /\ get_packet_pid(Cap, i) =
                     [kind |-> "pid", pid |-> PID_from(arrived[i + 1][1])]

\* Packets of different lengths were ingested, a longer one before a
\* shorter one.
C15_Witness ==
    /\ AfterIngest
    /\ Len(arrived) >= 3
    /\ Len(arrived[1]) > Len(arrived[2])
    /\ Len(arrived[2]) < Len(arrived[3])

\* ------------------------------------------------------------------- C16

\* C16: every endpoint id that can be allocated (the 2 pre-registered ids
\* and one per pair of device address 0..127 and endpoint number 0..15) fits
\* the 11-bit endpoint_id field of TransferIndexEntry: the endpoint_id read
\* back from an entry is the id of the endpoint the entry was created for,
\* and transfer_id and is_start are the values given.
C16_Original ==
    (call.op = "TransferIndexEntry" /\ ret # NotReturned) =>
        /\ call.endpoint_id < 2048
        /\ ret.entry.endpoint_id = call.endpoint_id
        /\ ret.entry.transfer_id = call.transfer_id
        /\ ret.entry.is_start = call.is_start

\* What the entry holds instead: the id less 2048 for the last two ids
\* allocated, which read back as the ids of the pre-registered endpoints.
C16_EndpointIdWraps ==
    (call.op = "TransferIndexEntry" /\ ret # NotReturned) =>
        /\ ret.entry.endpoint_id = call.endpoint_id % 2048
        /\ (call.endpoint_id >= 2048 => ret.entry.endpoint_id \in {0, 1})
        /\ ret.entry.transfer_id = call.transfer_id
        /\ ret.entry.is_start = call.is_start

\* ------------------------------------------------------------------- C17

\* The 16-bit word after the PID of a packet of at least 3 bytes.
Word(packet) == packet[2] + 256 * packet[3]

\* C17: for every SETUP, IN or OUT packet of at least 3 bytes from_packet
\* yields a Token, and its fields are the parts of the little-endian word
\* w = byte1 + 256 * byte2: device_address = w mod 128, endpoint_number =
\* (w div 128) mod 16, crc = w div 2048.  [2D 02 A8] gives 2, 0, 0x15 and
\* [69 82 18] gives 2, 1, 0x03.
C17_TokenFields ==
    (/\ call.op = "from_packet"
     /\ ret # NotReturned
     /\ call.packet[1] \in {PID_SETUP, PID_IN, PID_OUT}
     /\ Len(call.packet) >= 3) =>
        /\ ret.kind = "Token"
        /\ LET w == Word(call.packet)
               addr == device_address(ret.fields)
               num == endpoint_number(ret.fields)
               crc == Token_crc(ret.fields)
           IN  /\ addr \in 0..127
               /\ num \in 0..15
               /\ crc \in 0..31
               /\ addr + 128 * num + 2048 * crc = w
               /\ call.packet = <<45, 2, 168>> =>
                      <<addr, num, crc>> = <<2, 0, 21>>
               /\ call.packet = <<105, 130, 24>> =>
                      <<addr, num, crc>> = <<2, 1, 3>>

\* from_packet has returned the token of the IN packet of the tests.
C17_Witness ==
    /\ call = [op |-> "from_packet", packet |-> <<105, 130, 24>>]
    /\ ret = [kind |-> "Token", fields |-> 6274]

\* ------------------------------------------------------------------- C18

\* C18: for every SOF packet of at least 3 bytes from_packet yields SOF
\* fields that are the parts of the little-endian word w = byte1 + 256 *
\* byte2: frame_number = w mod 2048 and crc = w div 2048.  [A5 DE 1E] gives
\* frame number 1758 and crc 0x03.
C18_SofFields ==
    (/\ call.op = "from_packet"
     /\ ret # NotReturned
     /\ call.packet[1] = PID_SOF
     /\ Len(call.packet) >= 3) =>
        /\ ret.kind = "SOF"
        /\ LET w == Word(call.packet)
               frame == frame_number(ret.fields)
               crc == SOF_crc(ret.fields)
           IN  /\ frame \in 0..2047
               /\ crc \in 0..31
               /\ frame + 2048 * crc = w
               /\ call.packet = <<165, 222, 30>> => <<frame, crc>> = <<1758, 3>>

\* from_packet has returned the fields of the SOF packet of the tests.
C18_Witness ==
    /\ call = [op |-> "from_packet", packet |-> <<165, 222, 30>>]
    /\ ret.kind = "SOF"
    /\ frame_number(ret.fields) = 1758

\* ------------------------------------------------------------------- C19

\* The layout the first byte of a packet selects.
Layout(byte) ==
    IF byte = PID_SOF THEN "SOF"
    ELSE IF byte \in {PID_SETUP, PID_IN, PID_OUT} THEN "Token"
    ELSE IF byte \in {PID_DATA0, PID_DATA1} THEN "Data"
    ELSE "None"

\* C19: from_packet classifies by the PID byte alone: SOF gives the SOF
\* layout, SETUP, IN and OUT the Token layout, DATA0 and DATA1 the Data
\* layout, whose crc is the last two bytes of the packet as a little-endian
\* u16 whatever the length of the payload, and every other first byte
\* (DATA2, MDATA, handshakes, unknown bytes) gives None.
C19_Original ==
    (call.op = "from_packet" /\ ret # NotReturned) =>
        LET packet == call.packet
            end == Len(packet)
        IN  /\ ret # Panic
            /\ ret.kind = Layout(packet[1])
            /\ ret.kind = "Data" =>
                   /\ end >= 2
                   /\ ret.crc = packet[end - 1] + 256 * packet[end]

\* What from_packet does: the classification holds of the packets long
\* enough for the bytes the layout reads, and the call panics on the others.
C19_ClassifiedOrPanics ==
    (call.op = "from_packet" /\ ret # NotReturned) =>
        LET packet == call.packet
            end == Len(packet)
            layout == Layout(packet[1])
            needed == IF layout \in {"SOF", "Token"} THEN 3
                      ELSE IF layout = "Data" THEN 2 ELSE 1
        IN  IF end < needed THEN ret = Panic
            ELSE /\ ret # Panic
                 /\ ret.kind = layout
                 /\ layout = "Data" =>
                        ret.crc = packet[end - 1] + 256 * packet[end]

\* ------------------------------------------------------------------- C20

\* Endpoint i has a transfer in progress.
InProgress(i) == endpoint_data[i + 1].transaction_count > 0

\* C20: between ingest calls, for every allocated endpoint i,
\* last_endpoint_state[i] is Starting or Ongoing if and only if endpoint i
\* has a transfer in progress (transaction_count > 0), and is Idle or Ending
\* otherwise.
C20_StateMatchesTransfer ==
    AfterIngest =>
        /\ Len(last_endpoint_state) = Len(endpoints)
        /\ Len(endpoint_data) = Len(endpoints)
        /\ \A i \in EndpointIds :
              IF InProgress(i)
              THEN Get(last_endpoint_state, i) \in {Starting, Ongoing}
              ELSE Get(last_endpoint_state, i) \in {Idle, Ending}

\* One endpoint's transfer is still in progress after the transfer of
\* another has started and ended.
C20_Witness ==
    /\ AfterIngest
    /\ \E i, j \in EndpointIds :
          /\ InProgress(i)
          /\ Get(last_endpoint_state, i) = Ongoing
          /\ ~InProgress(j)
          /\ Get(last_endpoint_state, j) = Ending

\* ------------------------------------------------------------------- C21

\* C21: for every recorded transaction v, between ingest calls,
\* item_count(Transaction(_, v)) is the number of packets the transaction
\* FSM grouped into v (the count it had at transaction_end), also when v is
\* the most recently recorded transaction and a later one is pending.
C21_Original ==
    AfterIngest =>
        \A v \in TransactionIds, checks \in BOOLEAN :
            item_count(Cap, Transaction(0, v), checks) =
                [kind |-> "int", value |-> Cardinality(TransactionPackets(v))]

\* What item_count gives instead: the range of the last recorded
\* transaction runs to the end of packet_index, so it takes in the packets
\* of the pending transaction.
C21_LastCountsPending ==
    AfterIngest =>
        \A v \in TransactionIds, checks \in BOOLEAN :
            item_count(Cap, Transaction(0, v), checks) =
                [kind |-> "int",
                 value |-> Cardinality(TransactionPackets(v))
                           + (IF v + 1 = Len(transaction_index)
                              THEN Pending ELSE 0)]

\* ------------------------------------------------------------------- C22

\* The transaction of event ev is on a Control endpoint and began with SETUP.
ControlSetup(ev) ==
    /\ ev.first = PID_SETUP
    /\ endpoint_data[ev.endpoint_id + 1].ep_type = "Control"

\* The NEW arm of transfer_update as the event shows it: the transfer open
\* on the endpoint, if any, has got its end entry, a start entry for the
\* endpoint is the last of the transfer index, and the new transfer has the
\* transaction of the event as its first and only one, a success.
StartsTransfer(ev) ==
    LET before == ev.before
        after == ev.after
        open == before.transaction_count > 0
        n == Len(after.transfer_index)
    IN  /\ n = Len(before.transfer_index) + (IF open THEN 2 ELSE 1)
        /\ SubSeq(after.transfer_index, 1, Len(before.transfer_index))
               = before.transfer_index
        /\ after.transfer_index[n].is_start
        /\ after.transfer_index[n].endpoint_id = ev.endpoint_id
        /\ open => /\ ~after.transfer_index[n - 1].is_start
                   /\ after.transfer_index[n - 1].endpoint_id = ev.endpoint_id
        /\ after.transaction_ids = Push(before.transaction_ids, ev.transaction_id)
        /\ after.ep_transfer_index =
               Push(before.ep_transfer_index, Len(before.transaction_ids))
        /\ after.transaction_count = 1
        /\ after.last = ev.first

\* C22 as claimed: on a Control endpoint a SETUP transaction always starts
\* a new control transfer, whatever the endpoint's last PID: once it is
\* recorded, the transfer open on the endpoint has been ended and a new
\* start entry for the endpoint appended with this transaction as its first.
C22_Original ==
    AfterIngest =>
        \A i \in 1..Len(events) :
            ControlSetup(events[i]) => StartsTransfer(events[i])

\* C22 amended: the status of a SETUP transaction on a Control endpoint is
\* NEW whatever the endpoint's last PID.  It starts a new control transfer,
\* ending the open one, unless the retry guard holds (a transfer is open on
\* the endpoint and the transaction is not 3 packets ending in ACK): then it
\* joins the open transfer as a failed attempt and no entry is appended.
C22_SetupStartsUnlessRetry ==
    AfterIngest =>
        \A i \in 1..Len(events) :
            ControlSetup(events[i]) =>
                /\ events[i].status = "NEW"
                /\ IF RetryGuard(events[i])
                   THEN /\ events[i].after =
                              [events[i].before EXCEPT
                                  !.transaction_ids =
                                      Push(@, events[i].transaction_id),
                                  !.transaction_count = @ + 1]
                        /\ events[i].before.transfer_index # <<>>
                   ELSE StartsTransfer(events[i])

\* A complete SETUP transaction has been recorded on a Control endpoint
\* whose transfer was open with a last PID other than SETUP.
C22_Witness ==
    /\ AfterIngest
    /\ \E i \in 1..Len(events) :
          /\ ControlSetup(events[i])
          /\ ~RetryGuard(events[i])
          /\ events[i].before.transaction_count > 0
          /\ events[i].before.last = PID_IN

\* ------------------------------------------------------------------- C23

\* The call being made is handle_raw_packet with a packet whose transaction
\* status, in the state it is made in, is INVALID.
InvalidPacketArrives ==
    /\ call'.op = "handle_raw_packet"
    /\ arrived' = Push(arrived, call'.packet)
    /\ TransactionState_status(transaction_state,
                               PID_from(Head(call'.packet))) = "INVALID"

\* The pending transaction, if any, has been recorded with the packets it
\* had, then the packet as a transaction of one packet, and nothing is
\* pending.
FlushedAndRecordedAlone ==
    LET n == Len(transaction_index)
    IN  /\ ~aborted'
        /\ packet_index' = Push(packet_index, Len(packet_data))
        /\ transaction_index' =
               (IF Pending > 0
                THEN Push(transaction_index, PacketCount - Pending)
                ELSE transaction_index) \o <<PacketCount>>
        /\ Pending > 0 => transaction_state.start = PacketCount - Pending
        /\ transaction_state'.count = 0
        /\ transaction_state'.first = PID_Malformed
        /\ transaction_state'.last = PID_Malformed

\* C23: a packet whose transaction status is INVALID first flushes the
\* pending transaction, if any, with exactly the packets it had, then is
\* recorded as a transaction of exactly one packet, and leaves no pending
\* transaction (count = 0, first = last = Malformed); ingestion continues
\* with the next packet.
C23_Original ==
    [][InvalidPacketArrives => FlushedAndRecordedAlone]_vars

\* What happens instead: the packets from_packet cannot read make the call
\* abort; the others are recorded as the claim says.
C23_RecordedAloneOrAborts ==
    [][InvalidPacketArrives =>
          IF IsPanic(from_packet(call'.packet))
          THEN aborted' /\ UNCHANGED <<packet_index, packet_data>>
          ELSE FlushedAndRecordedAlone]_vars

\* ------------------------------------------------------------------- C24

\* C24: a transaction whose endpoint status is INVALID closes any open
\* transfer on its endpoint and is recorded as a singleton transfer: a start
\* entry immediately followed by an end entry for that endpoint in the
\* global transfer_index, containing exactly that one transaction, appended
\* as a failure (ep.last stays Malformed), with no transfer left open on
\* the endpoint.
C24_InvalidSingleton ==
    AfterIngest =>
        \A i \in 1..Len(events) :
            events[i].status = "INVALID" =>
                LET ev == events[i]
                    before == ev.before
                    after == ev.after
                    open == before.transaction_count > 0
                    m == Len(before.transfer_index)
                    u == IF open THEN m + 1 ELSE m
                    mine(k, start, id) ==
                        /\ after.transfer_index[k].is_start = start
                        /\ after.transfer_index[k].endpoint_id = ev.endpoint_id
                        /\ after.transfer_index[k].transfer_id = id
                    t == Len(before.ep_transfer_index)
                IN  /\ Len(after.transfer_index) = u + 2
                    /\ SubSeq(after.transfer_index, 1, m) = before.transfer_index
                    /\ open => mine(m + 1, FALSE, t)
                    /\ mine(u + 1, TRUE, t)
                    /\ mine(u + 2, FALSE, t + 1)
                    /\ after.transaction_ids =
                           Push(before.transaction_ids, ev.transaction_id)
                    /\ after.ep_transfer_index =
                           Push(before.ep_transfer_index,
                                Len(before.transaction_ids))
                    /\ Get(attempts, ev.transaction_id) = FALSE
                    /\ after.last = PID_Malformed
                    /\ after.transaction_count = 0
                    /\ item_count(Cap, Transfer(u), TRUE) =
                           [kind |-> "int", value |-> 1]
                    /\ get_item(Cap, Transfer(u), 0) =
                           Transaction(u, ev.transaction_id)

\* A transaction with status INVALID and no handshake has been recorded on
\* an endpoint whose transfer was open.
C24_Witness ==
    /\ AfterIngest
    /\ \E i \in 1..Len(events) :
          /\ events[i].status = "INVALID"
          /\ events[i].before.transaction_count > 0
          /\ events[i].before.last = PID_IN
          /\ events[i].first = PID_OUT
          /\ events[i].count = 2

\* ------------------------------------------------------------------- C25

\* C25: the endpoint registry.  Ids 0 (Invalid) and 1 (Framing) exist before
\* any packet is seen; the (device address, endpoint number) pair of a token
\* is given a fresh id, the next unused one from 2 on, the first time it
\* starts a transaction, and the same id at every later lookup; distinct
\* pairs never share an id; endpoints, endpoint_data and last_endpoint_state
\* always have equal length.
C25_EndpointRegistry ==
    ~Browsing =>
        LET n == Len(endpoints)
            pairs == DOMAIN endpoint_index
            tokens == {i \in 1..Len(arrived) :
                          from_packet(arrived[i]).kind = "Token"}
            pair(i) == LET w == from_packet(arrived[i]).fields
                       IN  <<device_address(w), endpoint_number(w)>>
            first(k) == Min({i \in tokens : pair(i) = k})
        IN  /\ n >= 2
            /\ Len(endpoint_data) = n
            /\ Len(last_endpoint_state) = n
            /\ endpoint_data[1].ep_type = "Invalid"
            /\ endpoint_data[2].ep_type = "Framing"
            /\ \A k \in pairs :
                  /\ endpoint_index[k] \in 2..(n - 1)
                  /\ endpoints[endpoint_index[k] + 1] =
                         [device_address |-> k[1], endpoint_number |-> k[2]]
                  /\ endpoint_data[endpoint_index[k] + 1].ep_type =
                         EndpointType_from(k[2])
            /\ \A k1, k2 \in pairs :
                  endpoint_index[k1] = endpoint_index[k2] => k1 = k2
            /\ Cardinality(pairs) = n - 2
            /\ ~aborted =>
                  /\ pairs = {pair(i) : i \in tokens}
                  /\ \A k1, k2 \in pairs :
                        first(k1) < first(k2) =>
                            endpoint_index[k1] < endpoint_index[k2]
                  /\ \A i \in tokens :
                        (i = Len(arrived) /\ Pending > 0) =>
                            transaction_state.endpoint_id =
                                endpoint_index[pair(i)]

\* Two pairs have been registered and the first of them is looked up again
\* by the token that starts the pending transaction.
C25_Witness ==
    /\ AfterIngest
    /\ Len(endpoints) = 4
    /\ Pending = 1
    /\ transaction_state.endpoint_id = 2
    /\ \E i \in 1..Len(arrived) :
          /\ i < Len(arrived)
          /\ from_packet(arrived[i]).kind = "Token"
          /\ endpoint_index_get(Cap, device_address(from_packet(arrived[i]).fields),
                                endpoint_number(from_packet(arrived[i]).fields)) = 3

\* ------------------------------------------------------------------- C26

\* C26: navigation is sound.  For every start entry u reachable from the
\* top level and every i < item_count(Transfer(u)), get_item(Transfer(u), i)
\* succeeds and returns Transaction(u, v), v a transaction recorded on the
\* endpoint of entry u during that transfer; distinct i give distinct v, and
\* the transaction sets of two different start entries are disjoint.
C26_NavigationSound ==
    AfterIngest =>
        LET top == {u \in StartEntries :
                       \E i \in 0..(Len(item_index) - 1) :
                           get_item(Cap, None, i) = Transfer(u)}
            api == [u \in top |-> ApiTransactions(u)]
            ids(u) == {api[u][i].v : i \in 1..Len(api[u])}
        IN  /\ \A u \in top :
                  /\ ~IsPanic(item_count(Cap, Transfer(u), TRUE))
                  /\ \A i \in 1..Len(api[u]) :
                        /\ api[u][i].kind = "Transaction"
                        /\ api[u][i].u = u
                        /\ api[u][i].v \in TransactionIds
                        /\ TransactionEndpoint(api[u][i].v) = Entry(u).endpoint_id
                        /\ api[u][i].v >= Get(entry_transactions, u)
                        /\ LaterEntries(u) # {} =>
                              api[u][i].v <=
                                  Get(entry_transactions, Min(LaterEntries(u)))
                  /\ Len(api[u]) >= 1
                  /\ api[u][1].v = Get(entry_transactions, u)
                  /\ \A i, j \in 1..Len(api[u]) :
                        api[u][i].v = api[u][j].v => i = j
            /\ \A u1, u2 \in top : u1 # u2 => ids(u1) \cap ids(u2) = {}

\* Two transfers of one endpoint and one of another are reached from the
\* top level, the first with two transactions.
C26_Witness ==
    /\ AfterIngest
    /\ \E u1, u2, u3 \in StartEntries \cap ItemEntries :
          /\ u1 < u2
          /\ Entry(u1).endpoint_id = Entry(u2).endpoint_id
          /\ Entry(u3).endpoint_id # Entry(u1).endpoint_id
          /\ Len(ApiTransactions(u1)) = 2
          /\ Len(ApiTransactions(u2)) >= 1
          /\ Len(ApiTransactions(u3)) >= 1

\* ------------------------------------------------------------------- C27

\* C27: for each endpoint, its entries in the global transfer_index
\* alternate start, end, start, end, ... beginning with a start, so at most
\* one transfer is open per endpoint at any time and an end entry is never
\* appended for an endpoint with no open transfer.
C27_EntriesAlternate ==
    AfterIngest =>
        \A e \in EndpointIds :
            LET mine == {k \in EntryIds : Entry(k).endpoint_id = e}
                rank(k) == Cardinality({j \in mine : j <= k})
            IN  /\ \A k \in mine : Entry(k).is_start <=> rank(k) % 2 = 1
                /\ InProgress(e) <=> Cardinality(mine) % 2 = 1

\* An endpoint has had a transfer started and ended twice, and another has
\* one open.
C27_Witness ==
    /\ AfterIngest
    /\ \E e1, e2 \in EndpointIds :
          /\ Cardinality({k \in EntryIds : Entry(k).endpoint_id = e1}) = 4
          /\ Cardinality({k \in EntryIds : Entry(k).endpoint_id = e2}) = 1

\* ------------------------------------------------------------------- C28

\* C28: once the Framing endpoint (id 1) has an open transfer it is never
\* closed and no second one is started: in every reachable state the global
\* transfer_index holds at most one start entry and no end entry for
\* endpoint 1, and every later SOF group is appended to that transfer as a
\* failed attempt.
C28_FramingNeverCloses ==
    ~Browsing =>
        LET mine == {k \in EntryIds : Entry(k).endpoint_id = 1}
            ids == endpoint_data[2].transaction_ids
        IN  /\ Cardinality(mine) <= 1
            /\ \A k \in mine : Entry(k).is_start
            /\ Len(endpoint_data[2].transfer_index) = Cardinality(mine)
            /\ ids # <<>> =>
                  /\ Cardinality(mine) = 1
                  /\ InProgress(1)
                  /\ endpoint_data[2].transaction_count = Len(ids)
                  /\ endpoint_data[2].last = PID_SOF
                  /\ Get(attempts, ids[1])
            /\ \A i \in 2..Len(ids) : ~Get(attempts, ids[i])
            /\ ~aborted =>
                  \A v \in TransactionIds :
                      IngestedPIDs[Get(transaction_index, v) + 1] = PID_SOF =>
                          \E i \in 1..Len(ids) : ids[i] = v

\* Two SOF groups have been recorded with a transfer of another endpoint
\* started between them.
C28_Witness ==
    /\ AfterIngest
    /\ Len(endpoint_data[2].transaction_ids) = 2
    /\ \E k \in StartEntries :
          /\ Entry(k).endpoint_id # 1
          /\ endpoint_data[2].transaction_ids[1] < Get(entry_transactions, k)
          /\ Get(entry_transactions, k) < endpoint_data[2].transaction_ids[2]

\* ------------------------------------------------------------------- C29

\* C29: between ingest calls, for every endpoint, ep.last # Malformed if and
\* only if transaction_count > 0; hence an endpoint status of CONTINUE or
\* DONE arises only while a transfer is open, and no transaction is appended
\* to ep.transaction_ids outside a started transfer.
C29_LastIffOpen ==
    AfterIngest =>
        /\ \A e \in EndpointIds :
              LET ep == endpoint_data[e + 1]
              IN  /\ ep.last # PID_Malformed <=> ep.transaction_count > 0
                  /\ ep.transaction_count <= Len(ep.transaction_ids)
                  /\ ep.transaction_ids # <<>> =>
                        /\ ep.transfer_index # <<>>
                        /\ ep.transfer_index[1] = 0
                  /\ ep.transaction_count > 0 =>
                        ep.transfer_index[Len(ep.transfer_index)] =
                            Len(ep.transaction_ids) - ep.transaction_count
        /\ \A i \in 1..Len(events) :
              /\ events[i].before.last # PID_Malformed
                     <=> events[i].before.transaction_count > 0
              /\ events[i].status \in {"CONTINUE", "DONE"} =>
                     events[i].before.transaction_count > 0
              /\ Len(events[i].after.transaction_ids)
                     > Len(events[i].before.transaction_ids) =>
                     events[i].after.ep_transfer_index # <<>>

\* A transaction with status DONE has been recorded, and a transfer of
\* another endpoint is open.
C29_Witness ==
    /\ AfterIngest
    /\ \E i \in 1..Len(events) :
          /\ events[i].status = "DONE"
          /\ ~events[i].retry_needed
          /\ events[i].after.last = PID_Malformed
    /\ \E e \in EndpointIds : endpoint_data[e + 1].last = PID_IN

\* ------------------------------------------------------------------- C30

\* C30: item_index is strictly increasing and every value in it is a valid
\* position of the global transfer_index; the position of every start entry
\* is in item_index, and every transfer entry whose position is not in
\* item_index is an end entry located immediately after the start entry of
\* the same transfer.
C30_ItemIndex ==
    AfterIngest =>
        /\ StrictlyIncreasing(item_index)
        /\ ItemEntries \subseteq EntryIds
        /\ StartEntries \subseteq ItemEntries
        /\ \A k \in EntryIds \ ItemEntries :
              /\ ~Entry(k).is_start
              /\ k - 1 \in StartEntries
              /\ Entry(k - 1).endpoint_id = Entry(k).endpoint_id
              /\ Entry(k - 1).transfer_id + 1 = Entry(k).transfer_id
              /\ Min(LaterEntries(k - 1)) = k

\* One end entry has an item of its own and another, right after its start
\* entry, has none.
C30_Witness ==
    /\ AfterIngest
    /\ EndEntries \cap ItemEntries # {}
    /\ EndEntries \ ItemEntries # {}
    /\ Len(item_index) >= 4

\* ------------------------------------------------------------------- C31

\* C31: between ingest calls the pending transaction is either empty
\* (count = 0 and first = last = Malformed) or was started by a SETUP, IN,
\* OUT or SOF packet; a pending transaction started by a token holds at most
\* 2 packets, so every recorded transaction whose first PID is not SOF has
\* between 1 and 3 packets, and every transaction assigned to endpoint 0 has
\* exactly 1 packet.
C31_TransactionSizes ==
    AfterIngest =>
        LET tokens == {PID_SETUP, PID_IN, PID_OUT}
            state == transaction_state
            first(v) == IngestedPIDs[Get(transaction_index, v) + 1]
            size(v) == Cardinality(TransactionPackets(v))
        IN  /\ IF Pending = 0
               THEN state.first = PID_Malformed /\ state.last = PID_Malformed
               ELSE /\ state.first \in tokens \cup {PID_SOF}
                    /\ state.start = Recorded
                    /\ IngestedPIDs[state.start + 1] = state.first
                    /\ IngestedPIDs[PacketCount] = state.last
            /\ state.first \in tokens => Pending <= 2
            /\ \A v \in TransactionIds :
                  /\ first(v) # PID_SOF => size(v) \in 1..3
                  /\ first(v) \in tokens <=> TransactionEndpoint(v) >= 2
                  /\ first(v) = PID_SOF <=> TransactionEndpoint(v) = 1
                  /\ TransactionEndpoint(v) = 0 => size(v) = 1

\* A transaction of 3 packets and one on endpoint 0 have been recorded, and
\* a transaction started by a token is pending with 2 packets.
C31_Witness ==
    /\ AfterIngest
    /\ Pending = 2
    /\ transaction_state.first = PID_SETUP
    /\ \E v1, v2 \in TransactionIds :
          /\ Cardinality(TransactionPackets(v1)) = 3
          /\ TransactionEndpoint(v2) = 0

\* ------------------------------------------------------------------- C32

\* C32: in the snapshot stored for transfer entry k with endpoint id e,
\* position e lies inside the snapshot and holds Starting if the entry is a
\* start and Ending if it is an end, and every other position holds Idle or
\* Ongoing; so each snapshot holds exactly one Starting-or-Ending state.
C32_SnapshotMarksEntry ==
    AfterIngest =>
        \A k \in EntryIds :
            LET snapshot == get_endpoint_state(Cap, k)
                e == Entry(k).endpoint_id
            IN  /\ ~IsPanic(snapshot)
                /\ e < Len(snapshot.bytes)
                /\ snapshot.bytes[e + 1] =
                       (IF Entry(k).is_start THEN Starting ELSE Ending)
                /\ \A i \in 1..Len(snapshot.bytes) :
                       i # e + 1 => snapshot.bytes[i] \in {Idle, Ongoing}
                /\ Cardinality({i \in 1..Len(snapshot.bytes) :
                       snapshot.bytes[i] \in {Starting, Ending}}) = 1

\* The snapshot of an end entry shows another endpoint Ongoing, and the
\* snapshot of a later start entry shows the ended endpoint Idle.
C32_Witness ==
    /\ AfterIngest
    /\ \E k, j \in EntryIds :
          /\ k < j
          /\ ~Entry(k).is_start
          /\ Entry(j).is_start
          /\ Entry(j).endpoint_id # Entry(k).endpoint_id
          /\ \E i \in 1..Len(get_endpoint_state(Cap, k).bytes) :
                get_endpoint_state(Cap, k).bytes[i] = Ongoing
          /\ get_endpoint_state(Cap, j).bytes[Entry(k).endpoint_id + 1] = Idle

====
